---- MODULE Spec2Model ----
(***************************************************************************)
(* A model of the numerical kernels of acoular/fastFuncs.py: the CSM       *)
(* accumulator calcCSM, the dispatcher beamformerFreq and its twenty       *)
(* guvectorize kernels.                                                    *)
(*                                                                         *)
(* Numbers.  float64 values are modelled by exact rationals [n, d] in      *)
(* lowest terms and complex128 values by pairs [re, im] of rationals.  The *)
(* inputs are small integers and the only divisors are small integers, so  *)
(* the model computes the value the floating-point code approximates.      *)
(* Phase arguments are counted in quarter turns: a wavenumber k and a      *)
(* distance d give the phase k*d quarter turns, where cos and sin are      *)
(* exact.  Arrays are 1-based sequences: index i+1 here is index i of the  *)
(* Python code.                                                            *)
(***************************************************************************)
EXTENDS Integers, Sequences, FiniteSets, TLC

VARIABLES
    csm,            \* the caller's cross spectral matrix [freq][row][column]
    SpecAllMics,    \* the spectrum handed to the last calcCSM call, <<>> once gone
    nEnsembles,     \* number of calcCSM calls made on csm
    eigVal,         \* the caller's eigenvalues [freq][ev], <<>> when none is held
    eigVec,         \* the caller's eigenvectors [freq][mic][ev], <<>> when none is held
    pc,             \* position inside beamformerFreq, "idle" outside of it
    call,           \* the arguments of the running beamformerFreq call
    coreFunc,       \* the kernel selected by the dictionary lookup, "none" before
    locals,         \* nFreqs and nGridPoints once the input is unpacked
    beamformOutput, \* the output map [freq][gridpoint], <<>> before its allocation
    cntFreqs,       \* number of finished iterations of the frequency loop
    events,         \* what the running call has done so far
    raised,         \* the exception the running call has raised, "none" otherwise
    self,           \* the PointSource or MovingPointSource object, <<>> when there is none
    frame,          \* the local variables of its generator result(num)
    gpc,            \* position of the generator, "none" when there is no source
    yielded,        \* the blocks the generator has yielded so far, in yield order
    generated,      \* the rows the generator has written into out so far, in order
    result,         \* the array "result" the kernel's grid point instances write into
    units,          \* per grid point: the state of the kernel instance of the running pass
    writes,         \* the writes of the kernel instances so far: instance and slot
    transferInput,  \* the arguments of the call of transfer, <<>> before it
    transferOutput, \* what transfer returned, <<>> before it
    threads,        \* the calcCSM calls that run on the same csm, <<>> when there is none
    overlapped      \* a calcCSM call has taken a step while another one was running

\* the variables of calcCSM and beamformerFreq
beamVars == <<csm, SpecAllMics, nEnsembles, eigVal, eigVec, pc, call, coreFunc,
              locals, beamformOutput, cntFreqs, events, raised>>

\* the variables of the sources
sourceVars == <<self, frame, gpc, yielded, generated>>

\* the variables of the grid point instances of a kernel, of transfer and of
\* calcCSM calls that run at the same time
workerVars == <<result, units, writes, transferInput, transferOutput, threads, overlapped>>

\* what the sequential calcCSM and beamformerFreq never touch
extraVars == <<sourceVars, workerVars>>

vars == <<beamVars, extraVars>>

(***************************************************************************)
(* Bounds of the model.                                                    *)
(***************************************************************************)
MaxEnsembles == 2

\* numbers of microphones and of frequency slices of the caller's arrays
MicCounts == {1, 2}
FreqCounts == {1, 2}
\* grid-to-microphone and grid-to-centre distances
Dists == {1, 2}

(***************************************************************************)
(* float64 and complex128 arithmetic.                                      *)
(***************************************************************************)
Abs(x) == IF x < 0 THEN -x ELSE x

RECURSIVE Gcd(_, _)
Gcd(a, b) == IF b = 0 THEN a ELSE Gcd(b, a % b)

\* the rational n/d in lowest terms with a positive denominator (d # 0)
Rat(n, d) ==
    LET g == Gcd(Abs(n), Abs(d))
        s == IF d < 0 THEN -1 ELSE 1
    IN [n |-> (s * n) \div g, d |-> (s * d) \div g]

RInt(i) == [n |-> i, d |-> 1]
RAdd(a, b) == Rat(a.n * b.d + b.n * a.d, a.d * b.d)
RSub(a, b) == Rat(a.n * b.d - b.n * a.d, a.d * b.d)
RMul(a, b) == Rat(a.n * b.n, a.d * b.d)
RDiv(a, b) == Rat(a.n * b.d, a.d * b.n)

Cplx(re, im) == [re |-> re, im |-> im]
CInt(re, im) == [re |-> RInt(re), im |-> RInt(im)]
CZero == CInt(0, 0)
CAdd(a, b) == Cplx(RAdd(a.re, b.re), RAdd(a.im, b.im))
CMul(a, b) == Cplx(RSub(RMul(a.re, b.re), RMul(a.im, b.im)),
                   RAdd(RMul(a.re, b.im), RMul(a.im, b.re)))
CConj(a) == Cplx(a.re, RSub(RInt(0), a.im))
\* complex times float and complex divided by float
CScale(a, r) == Cplx(RMul(a.re, r), RMul(a.im, r))
CDivR(a, r) == Cplx(RDiv(a.re, r), RDiv(a.im, r))

(***************************************************************************)
(* calcCSM: the three nested loops, innermost first.                       *)
(***************************************************************************)
SetEntry(m, f, r, c, v) == [m EXCEPT ![f][r][c] = v]

\* mutant: the row loop runs over range(nMics) and fills the lower triangle too
RECURSIVE CalcCSMRows_AllRows(_, _, _, _, _, _)
CalcCSMRows_AllRows(m, S, cntFreq, cntColumn, temp, cntRow) ==
    IF cntRow > Len(m[1]) THEN m
    ELSE CalcCSMRows_AllRows(
           SetEntry(m, cntFreq, cntRow, cntColumn,
                    CAdd(m[cntFreq][cntRow][cntColumn], CMul(temp, S[cntFreq][cntRow]))),
           S, cntFreq, cntColumn, temp, cntRow + 1)

\* mutant: the product is stored into the entry, not added to it
RECURSIVE CalcCSMRows_Overwrite(_, _, _, _, _, _)
CalcCSMRows_Overwrite(m, S, cntFreq, cntColumn, temp, cntRow) ==
    IF cntRow > cntColumn THEN m
    ELSE CalcCSMRows_Overwrite(
           SetEntry(m, cntFreq, cntRow, cntColumn, CMul(temp, S[cntFreq][cntRow])),
           S, cntFreq, cntColumn, temp, cntRow + 1)

\* for cntRow in range(cntColumn + 1): csm[f, cntRow, cntColumn] += temp * Spec[f, cntRow]
RECURSIVE CalcCSMRows(_, _, _, _, _, _)
CalcCSMRows(m, S, cntFreq, cntColumn, temp, cntRow) ==
    IF cntRow > cntColumn THEN m
    ELSE CalcCSMRows(
           SetEntry(m, cntFreq, cntRow, cntColumn,
                    CAdd(m[cntFreq][cntRow][cntColumn], CMul(temp, S[cntFreq][cntRow]))),
           S, cntFreq, cntColumn, temp, cntRow + 1)

\* for cntColumn in range(nMics): temp = Spec[f, cntColumn].conjugate(); rows
RECURSIVE CalcCSMColumns(_, _, _, _)
CalcCSMColumns(m, S, cntFreq, cntColumn) ==
    IF cntColumn > Len(m[1]) THEN m
    ELSE CalcCSMColumns(
           CalcCSMRows(m, S, cntFreq, cntColumn, CConj(S[cntFreq][cntColumn]), 1),
           S, cntFreq, cntColumn + 1)

\* for cntFreq in range(nFreqs): columns
RECURSIVE CalcCSMFreqs(_, _, _)
CalcCSMFreqs(m, S, cntFreq) ==
    IF cntFreq > Len(m) THEN m
    ELSE CalcCSMFreqs(CalcCSMColumns(m, S, cntFreq, 1), S, cntFreq + 1)

\* mutant: the row's factor is conjugated instead of the column's
calcCSM_ConjugatedRow(m, S) ==
    CalcCSMFreqs(m, [f \in 1..Len(S) |-> [i \in 1..Len(S[f]) |-> CConj(S[f][i])]], 1)

calcCSM(m, S) == CalcCSMFreqs(m, S, 1)

(***************************************************************************)
(* Building blocks of the kernels.                                         *)
(***************************************************************************)
F32Mantissa == 24

\* |a| rounded to a multiple of the unit p, ties to the even multiple
RoundToUnit(a, p) ==
    LET q == a \div p
        r == a % p
    IN IF 2 * r > p \/ (2 * r = p /\ q % 2 = 1) THEN (q + 1) * p ELSE q * p

RECURSIVE Float32Abs(_, _)
Float32Abs(a, p) ==
    IF a < (2 ^ F32Mantissa) * p THEN RoundToUnit(a, p) ELSE Float32Abs(a, 2 * p)

\* np.float32(x) of an integer-valued double: the nearest value with a 24-bit mantissa
Float32(x) == IF x < 0 THEN -Float32Abs(-x, 1) ELSE Float32Abs(x, 1)

\* np.cos(expArg) - 1j * np.sin(expArg), expArg counted in quarter turns
Phasor(expArg) ==
    CASE expArg % 4 = 0 -> CInt(1, 0)
      [] expArg % 4 = 1 -> CInt(0, -1)
      [] expArg % 4 = 2 -> CInt(-1, 0)
      [] expArg % 4 = 3 -> CInt(0, 1)

\* the running sums "x += term" of the kernels' loops, in loop order
RECURSIVE RSumFrom(_, _, _)
RSumFrom(terms, i, acc) ==
    IF i > Len(terms) THEN acc ELSE RSumFrom(terms, i + 1, RAdd(acc, terms[i]))
RSum(terms) == RSumFrom(terms, 1, RInt(0))

RECURSIVE CSumFrom(_, _, _)
CSumFrom(terms, i, acc) ==
    IF i > Len(terms) THEN acc ELSE CSumFrom(terms, i + 1, CAdd(acc, terms[i]))
CSum(terms) == CSumFrom(terms, 1, CZero)

\* mutant: the square of the number in place of its squared magnitude
AbsSquared_PlainSquare(a) == CMul(a, a).re

\* (a * a.conjugate()).real
AbsSquared(a) == CMul(a, CConj(a)).re

\* helpNormalize += 1.0 / (distGridToAllMics[cntMics] * distGridToAllMics[cntMics])
HelpNormalize(distGridToAllMics) ==
    RSum([cntMics \in 1..Len(distGridToAllMics) |->
            RDiv(RInt(1), RInt(distGridToAllMics[cntMics] * distGridToAllMics[cntMics]))])

\* steering vectors of the Direct kernels: expArg = np.float32(waveNumber * dist)
SteerVec1(distGridToAllMics, waveNumber) ==
    [cntMics \in 1..Len(distGridToAllMics) |->
        Phasor(Float32(waveNumber * distGridToAllMics[cntMics]))]

SteerVec2(distGridToAllMics, waveNumber) ==
    [cntMics \in 1..Len(distGridToAllMics) |->
        CScale(Phasor(Float32(waveNumber * distGridToAllMics[cntMics])),
               RInt(distGridToAllMics[cntMics]))]

SteerVec3(distGridToAllMics, waveNumber) ==
    [cntMics \in 1..Len(distGridToAllMics) |->
        CDivR(Phasor(Float32(waveNumber * distGridToAllMics[cntMics])),
              RInt(distGridToAllMics[cntMics]))]

\* steering vectors of the Eigen kernels that subtract distGridToArrayCenter:
\* expArg = np.float32(waveNumber * (dist - distGridToArrayCenter))
SteerVecOffset1(distGridToArrayCenter, distGridToAllMics, waveNumber) ==
    [cntMics \in 1..Len(distGridToAllMics) |->
        Phasor(Float32(waveNumber * (distGridToAllMics[cntMics] - distGridToArrayCenter)))]

SteerVecOffset2(distGridToArrayCenter, distGridToAllMics, waveNumber) ==
    [cntMics \in 1..Len(distGridToAllMics) |->
        CScale(Phasor(Float32(waveNumber * (distGridToAllMics[cntMics] - distGridToArrayCenter))),
               RInt(distGridToAllMics[cntMics]))]

SteerVecOffset3(distGridToArrayCenter, distGridToAllMics, waveNumber) ==
    [cntMics \in 1..Len(distGridToAllMics) |->
        CDivR(Phasor(Float32(waveNumber * (distGridToAllMics[cntMics] - distGridToArrayCenter))),
              RInt(distGridToAllMics[cntMics]))]

\* mutant: the entries left of the diagonal are read, conjugated, in place of those above it
LeftVecMatrixProd_LowerTriangle(m, steerVec, cntMics) ==
    CSum([cntMics2 \in 1..(cntMics - 1) |->
            CMul(CConj(m[cntMics][cntMics2]), CConj(steerVec[cntMics2]))])

\* for cntMics2 in xrange(cntMics): leftVecMatrixProd += csm[cntMics2, cntMics] * steerVec[cntMics2].conjugate()
LeftVecMatrixProd(m, steerVec, cntMics) ==
    CSum([cntMics2 \in 1..(cntMics - 1) |->
            CMul(m[cntMics2][cntMics], CConj(steerVec[cntMics2]))])

\* mutant: the factor 2 that stands for the lower triangle is missing
UpperTerm_NoFactorTwo(m, steerVec, cntMics) ==
    CMul(LeftVecMatrixProd(m, steerVec, cntMics), steerVec[cntMics]).re

\* 2 * (leftVecMatrixProd * steerVec[cntMics]).real
UpperTerm(m, steerVec, cntMics) ==
    RMul(RInt(2), CMul(LeftVecMatrixProd(m, steerVec, cntMics), steerVec[cntMics]).re)

\* mutant: the diagonal entry is added without the steering vector's weight
DiagTerm_Unweighted(m, steerVec, cntMics) == m[cntMics][cntMics].re

\* (csm[cntMics, cntMics] * steerVec[cntMics].conjugate() * steerVec[cntMics]).real
DiagTerm(m, steerVec, cntMics) ==
    CMul(CMul(m[cntMics][cntMics], CConj(steerVec[cntMics])), steerVec[cntMics]).re

\* the matrix-vector loop of the Full-CSM Direct kernels, nMics = csm.shape[0]
ScalarProdFullCSM(m, steerVec) ==
    RSum([cntMics \in 1..Len(m) |->
            RAdd(UpperTerm(m, steerVec, cntMics), DiagTerm(m, steerVec, cntMics))])

\* the matrix-vector loop of the Diagonal-Removed Direct kernels
ScalarProdCsmRemovedDiag(m, steerVec) ==
    RSum([cntMics \in 1..Len(m) |-> UpperTerm(m, steerVec, cntMics)])

\* mutant: the eigenvector is not conjugated
ScalarProdPerEigVal_NoConjugate(ev, steerVec, nMics, cntEigVal) ==
    CSum([cntMics \in 1..nMics |-> CMul(ev[cntMics][cntEigVal], steerVec[cntMics])])

\* scalarProdFullCSMperEigVal += eigVec[cntMics, cntEigVal].conjugate() * steerVec[cntMics]
ScalarProdPerEigVal(ev, steerVec, nMics, cntEigVal) ==
    CSum([cntMics \in 1..nMics |-> CMul(CConj(ev[cntMics][cntEigVal]), steerVec[cntMics])])

\* scalarProdDiagCSMperEigVal += (temp1 * temp1.conjugate()).real
ScalarProdDiagPerEigVal(ev, steerVec, nMics, cntEigVal) ==
    RSum([cntMics \in 1..nMics |->
            AbsSquared(CMul(CConj(ev[cntMics][cntEigVal]), steerVec[cntMics]))])

\* the spectral-decomposition loop of the Full-CSM Eigen kernels
ScalarProdEigFullCSM(el, ev, steerVec, nMics) ==
    RSum([cntEigVal \in 1..Len(el) |->
            RMul(AbsSquared(ScalarProdPerEigVal(ev, steerVec, nMics, cntEigVal)),
                 el[cntEigVal])])

\* the spectral-decomposition loop of the Diagonal-Removed Eigen kernels
ScalarProdEigReducedCSM(el, ev, steerVec, nMics) ==
    RSum([cntEigVal \in 1..Len(el) |->
            RMul(RSub(AbsSquared(ScalarProdPerEigVal(ev, steerVec, nMics, cntEigVal)),
                      ScalarProdDiagPerEigVal(ev, steerVec, nMics, cntEigVal)),
                 el[cntEigVal])])

\* mutant: formulation II normalizes like formulation I
NormalizeFactor2_NoCenterDist(nMics, distGridToArrayCenter) == RInt(nMics)

\* mutant: formulation I without its division by the number of microphones
NormalizeFactor1_Unit(nMics) == RInt(1)

\* normalizeFactor of the four formulations
NormalizeFactor1(nMics) == RInt(nMics)
NormalizeFactor2(nMics, distGridToArrayCenter) == RInt(nMics * distGridToArrayCenter)
NormalizeFactor3(distGridToArrayCenter, distGridToAllMics) ==
    RMul(RInt(distGridToArrayCenter), HelpNormalize(distGridToAllMics))
NormalizeFactor4(nMics, distGridToAllMics) ==
    RMul(RInt(nMics), HelpNormalize(distGridToAllMics))

\* result[0] = scalarProd / (normalizeFactor * normalizeFactor) * signalLossNormalization[0]
ResultSquaredNorm(scalarProd, normalizeFactor, signalLossNormalization) ==
    RMul(RDiv(scalarProd, RMul(normalizeFactor, normalizeFactor)), signalLossNormalization)

\* mutant: formulation IV divides by the square like formulations I to III
ResultPlainNorm_Squared(scalarProd, normalizeFactor, signalLossNormalization) ==
    RMul(RDiv(scalarProd, RMul(normalizeFactor, normalizeFactor)), signalLossNormalization)

\* result[0] = scalarProd / normalizeFactor * signalLossNormalization[0]
ResultPlainNorm(scalarProd, normalizeFactor, signalLossNormalization) ==
    RMul(RDiv(scalarProd, normalizeFactor), signalLossNormalization)

(***************************************************************************)
(* The Direct kernels, one grid point each: csm is one frequency slice,    *)
(* distGridToAllMics one row, the other arguments scalars.                 *)
(***************************************************************************)
_freqBeamformer_Formulation1AkaClassic_FullCSM(m, distGridToArrayCenter, distGridToAllMics, waveNumber, signalLossNormalization) ==
    ResultSquaredNorm(ScalarProdFullCSM(m, SteerVec1(distGridToAllMics, waveNumber)),
             NormalizeFactor1(Len(m)), signalLossNormalization)

_freqBeamformer_Formulation1AkaClassic_CsmRemovedDiag(m, distGridToArrayCenter, distGridToAllMics, waveNumber, signalLossNormalization) ==
    ResultSquaredNorm(ScalarProdCsmRemovedDiag(m, SteerVec1(distGridToAllMics, waveNumber)),
             NormalizeFactor1(Len(m)), signalLossNormalization)

_freqBeamformer_Formulation2AkaInverse_FullCSM(m, distGridToArrayCenter, distGridToAllMics, waveNumber, signalLossNormalization) ==
    ResultSquaredNorm(ScalarProdFullCSM(m, SteerVec2(distGridToAllMics, waveNumber)),
             NormalizeFactor2(Len(m), distGridToArrayCenter), signalLossNormalization)

_freqBeamformer_Formulation2AkaInverse_CsmRemovedDiag(m, distGridToArrayCenter, distGridToAllMics, waveNumber, signalLossNormalization) ==
    ResultSquaredNorm(ScalarProdCsmRemovedDiag(m, SteerVec2(distGridToAllMics, waveNumber)),
             NormalizeFactor2(Len(m), distGridToArrayCenter), signalLossNormalization)

_freqBeamformer_Formulation3AkaTrueLevel_FullCSM(m, distGridToArrayCenter, distGridToAllMics, waveNumber, signalLossNormalization) ==
    ResultSquaredNorm(ScalarProdFullCSM(m, SteerVec3(distGridToAllMics, waveNumber)),
             NormalizeFactor3(distGridToArrayCenter, distGridToAllMics), signalLossNormalization)

_freqBeamformer_Formulation3AkaTrueLevel_CsmRemovedDiag(m, distGridToArrayCenter, distGridToAllMics, waveNumber, signalLossNormalization) ==
    ResultSquaredNorm(ScalarProdCsmRemovedDiag(m, SteerVec3(distGridToAllMics, waveNumber)),
             NormalizeFactor3(distGridToArrayCenter, distGridToAllMics), signalLossNormalization)

_freqBeamformer_Formulation4AkaTrueLocation_FullCSM(m, distGridToArrayCenter, distGridToAllMics, waveNumber, signalLossNormalization) ==
    ResultPlainNorm(ScalarProdFullCSM(m, SteerVec3(distGridToAllMics, waveNumber)),
             NormalizeFactor4(Len(m), distGridToAllMics), signalLossNormalization)

_freqBeamformer_Formulation4AkaTrueLocation_CsmRemovedDiag(m, distGridToArrayCenter, distGridToAllMics, waveNumber, signalLossNormalization) ==
    ResultPlainNorm(ScalarProdCsmRemovedDiag(m, SteerVec3(distGridToAllMics, waveNumber)),
             NormalizeFactor4(Len(m), distGridToAllMics), signalLossNormalization)

_freqBeamformer_SpecificSteerVec_FullCSM(m, steerVec, signalLossNormalization) ==
    RMul(ScalarProdFullCSM(m, steerVec), signalLossNormalization)

_freqBeamformer_SpecificSteerVec_CsmRemovedDiag(m, steerVec, signalLossNormalization) ==
    RMul(ScalarProdCsmRemovedDiag(m, steerVec), signalLossNormalization)

(***************************************************************************)
(* The Eigen kernels, one grid point each: el and ev are the eigenvalues   *)
(* and eigenvectors of one frequency, nMics = distGridToAllMics.shape[0].  *)
(***************************************************************************)
\* mutant: the two kernels of formulation I build each other's steering vector
EigSteerVec_Formulation1Swapped(name, distGridToArrayCenter, distGridToAllMics, waveNumber) ==
    CASE name = "_freqBeamformer_EigValProb_Formulation1AkaClassic_FullCSM" ->
           SteerVecOffset1(distGridToArrayCenter, distGridToAllMics, waveNumber)
      [] name = "_freqBeamformer_EigValProb_Formulation1AkaClassic_CsmRemovedDiag" ->
           SteerVec1(distGridToAllMics, waveNumber)
      [] name \in {"_freqBeamformer_EigValProb_Formulation2AkaInverse_FullCSM",
                   "_freqBeamformer_EigValProb_Formulation2AkaInverse_CsmRemovedDiag"} ->
           SteerVecOffset2(distGridToArrayCenter, distGridToAllMics, waveNumber)
      [] name \in {"_freqBeamformer_EigValProb_Formulation3AkaTrueLevel_FullCSM",
                   "_freqBeamformer_EigValProb_Formulation3AkaTrueLevel_CsmRemovedDiag",
                   "_freqBeamformer_EigValProb_Formulation4AkaTrueLocation_FullCSM",
                   "_freqBeamformer_EigValProb_Formulation4AkaTrueLocation_CsmRemovedDiag"} ->
           SteerVecOffset3(distGridToArrayCenter, distGridToAllMics, waveNumber)

\* the loop "building steering vector" of the named Eigen kernel
EigSteerVec(name, distGridToArrayCenter, distGridToAllMics, waveNumber) ==
    CASE name = "_freqBeamformer_EigValProb_Formulation1AkaClassic_FullCSM" ->
           SteerVec1(distGridToAllMics, waveNumber)
      [] name = "_freqBeamformer_EigValProb_Formulation1AkaClassic_CsmRemovedDiag" ->
           SteerVecOffset1(distGridToArrayCenter, distGridToAllMics, waveNumber)
      [] name \in {"_freqBeamformer_EigValProb_Formulation2AkaInverse_FullCSM",
                   "_freqBeamformer_EigValProb_Formulation2AkaInverse_CsmRemovedDiag"} ->
           SteerVecOffset2(distGridToArrayCenter, distGridToAllMics, waveNumber)
      [] name \in {"_freqBeamformer_EigValProb_Formulation3AkaTrueLevel_FullCSM",
                   "_freqBeamformer_EigValProb_Formulation3AkaTrueLevel_CsmRemovedDiag",
                   "_freqBeamformer_EigValProb_Formulation4AkaTrueLocation_FullCSM",
                   "_freqBeamformer_EigValProb_Formulation4AkaTrueLocation_CsmRemovedDiag"} ->
           SteerVecOffset3(distGridToArrayCenter, distGridToAllMics, waveNumber)

_freqBeamformer_EigValProb_Formulation1AkaClassic_FullCSM(el, ev, distGridToArrayCenter, distGridToAllMics, waveNumber, signalLossNormalization) ==
    ResultSquaredNorm(ScalarProdEigFullCSM(el, ev, EigSteerVec("_freqBeamformer_EigValProb_Formulation1AkaClassic_FullCSM",
                     distGridToArrayCenter, distGridToAllMics, waveNumber),
                 Len(distGridToAllMics)),
             NormalizeFactor1(Len(distGridToAllMics)), signalLossNormalization)

_freqBeamformer_EigValProb_Formulation1AkaClassic_CsmRemovedDiag(el, ev, distGridToArrayCenter, distGridToAllMics, waveNumber, signalLossNormalization) ==
    ResultSquaredNorm(ScalarProdEigReducedCSM(el, ev, EigSteerVec("_freqBeamformer_EigValProb_Formulation1AkaClassic_CsmRemovedDiag",
                     distGridToArrayCenter, distGridToAllMics, waveNumber),
                 Len(distGridToAllMics)),
             NormalizeFactor1(Len(distGridToAllMics)), signalLossNormalization)

_freqBeamformer_EigValProb_Formulation2AkaInverse_FullCSM(el, ev, distGridToArrayCenter, distGridToAllMics, waveNumber, signalLossNormalization) ==
    ResultSquaredNorm(ScalarProdEigFullCSM(el, ev, EigSteerVec("_freqBeamformer_EigValProb_Formulation2AkaInverse_FullCSM",
                     distGridToArrayCenter, distGridToAllMics, waveNumber),
                 Len(distGridToAllMics)),
             NormalizeFactor2(Len(distGridToAllMics), distGridToArrayCenter), signalLossNormalization)

_freqBeamformer_EigValProb_Formulation2AkaInverse_CsmRemovedDiag(el, ev, distGridToArrayCenter, distGridToAllMics, waveNumber, signalLossNormalization) ==
    ResultSquaredNorm(ScalarProdEigReducedCSM(el, ev, EigSteerVec("_freqBeamformer_EigValProb_Formulation2AkaInverse_CsmRemovedDiag",
                     distGridToArrayCenter, distGridToAllMics, waveNumber),
                 Len(distGridToAllMics)),
             NormalizeFactor2(Len(distGridToAllMics), distGridToArrayCenter), signalLossNormalization)

_freqBeamformer_EigValProb_Formulation3AkaTrueLevel_FullCSM(el, ev, distGridToArrayCenter, distGridToAllMics, waveNumber, signalLossNormalization) ==
    ResultSquaredNorm(ScalarProdEigFullCSM(el, ev, EigSteerVec("_freqBeamformer_EigValProb_Formulation3AkaTrueLevel_FullCSM",
                     distGridToArrayCenter, distGridToAllMics, waveNumber),
                 Len(distGridToAllMics)),
             NormalizeFactor3(distGridToArrayCenter, distGridToAllMics), signalLossNormalization)

_freqBeamformer_EigValProb_Formulation3AkaTrueLevel_CsmRemovedDiag(el, ev, distGridToArrayCenter, distGridToAllMics, waveNumber, signalLossNormalization) ==
    ResultSquaredNorm(ScalarProdEigReducedCSM(el, ev, EigSteerVec("_freqBeamformer_EigValProb_Formulation3AkaTrueLevel_CsmRemovedDiag",
                     distGridToArrayCenter, distGridToAllMics, waveNumber),
                 Len(distGridToAllMics)),
             NormalizeFactor3(distGridToArrayCenter, distGridToAllMics), signalLossNormalization)

_freqBeamformer_EigValProb_Formulation4AkaTrueLocation_FullCSM(el, ev, distGridToArrayCenter, distGridToAllMics, waveNumber, signalLossNormalization) ==
    ResultPlainNorm(ScalarProdEigFullCSM(el, ev, EigSteerVec("_freqBeamformer_EigValProb_Formulation4AkaTrueLocation_FullCSM",
                     distGridToArrayCenter, distGridToAllMics, waveNumber),
                 Len(distGridToAllMics)),
             NormalizeFactor4(Len(distGridToAllMics), distGridToAllMics), signalLossNormalization)

_freqBeamformer_EigValProb_Formulation4AkaTrueLocation_CsmRemovedDiag(el, ev, distGridToArrayCenter, distGridToAllMics, waveNumber, signalLossNormalization) ==
    ResultPlainNorm(ScalarProdEigReducedCSM(el, ev, EigSteerVec("_freqBeamformer_EigValProb_Formulation4AkaTrueLocation_CsmRemovedDiag",
                     distGridToArrayCenter, distGridToAllMics, waveNumber),
                 Len(distGridToAllMics)),
             NormalizeFactor4(Len(distGridToAllMics), distGridToAllMics), signalLossNormalization)

\* nMics = eigVec.shape[0]
_freqBeamformer_EigValProb_SpecificSteerVec_FullCSM(el, ev, steerVec, signalLossNormalization) ==
    RMul(ScalarProdEigFullCSM(el, ev, steerVec, Len(ev)), signalLossNormalization)

_freqBeamformer_EigValProb_SpecificSteerVec_CsmRemovedDiag(el, ev, steerVec, signalLossNormalization) ==
    RMul(ScalarProdEigReducedCSM(el, ev, steerVec, Len(ev)), signalLossNormalization)

(***************************************************************************)
(* beamformerFreq.  steerVecType is one of "1", "2", "3", "4", "specific"  *)
(* (the Python values 1, 2, 3, 4, 'specific'); the inputTuple is a tuple   *)
(* of arrays in the order the docstring gives for the key.                 *)
(***************************************************************************)
beamformerDict ==
    <<FALSE, "1", FALSE>> :> "_freqBeamformer_Formulation1AkaClassic_FullCSM"
    @@ <<FALSE, "1", TRUE>> :> "_freqBeamformer_Formulation1AkaClassic_CsmRemovedDiag"
    @@ <<FALSE, "2", FALSE>> :> "_freqBeamformer_Formulation2AkaInverse_FullCSM"
    @@ <<FALSE, "2", TRUE>> :> "_freqBeamformer_Formulation2AkaInverse_CsmRemovedDiag"
    @@ <<FALSE, "3", FALSE>> :> "_freqBeamformer_Formulation3AkaTrueLevel_FullCSM"
    @@ <<FALSE, "3", TRUE>> :> "_freqBeamformer_Formulation3AkaTrueLevel_CsmRemovedDiag"
    @@ <<FALSE, "4", FALSE>> :> "_freqBeamformer_Formulation4AkaTrueLocation_FullCSM"
    @@ <<FALSE, "4", TRUE>> :> "_freqBeamformer_Formulation4AkaTrueLocation_CsmRemovedDiag"
    @@ <<FALSE, "specific", FALSE>> :> "_freqBeamformer_SpecificSteerVec_FullCSM"
    @@ <<FALSE, "specific", TRUE>> :> "_freqBeamformer_SpecificSteerVec_CsmRemovedDiag"
    @@ <<TRUE, "1", FALSE>> :> "_freqBeamformer_EigValProb_Formulation1AkaClassic_FullCSM"
    @@ <<TRUE, "1", TRUE>> :> "_freqBeamformer_EigValProb_Formulation1AkaClassic_CsmRemovedDiag"
    @@ <<TRUE, "2", FALSE>> :> "_freqBeamformer_EigValProb_Formulation2AkaInverse_FullCSM"
    @@ <<TRUE, "2", TRUE>> :> "_freqBeamformer_EigValProb_Formulation2AkaInverse_CsmRemovedDiag"
    @@ <<TRUE, "3", FALSE>> :> "_freqBeamformer_EigValProb_Formulation3AkaTrueLevel_FullCSM"
    @@ <<TRUE, "3", TRUE>> :> "_freqBeamformer_EigValProb_Formulation3AkaTrueLevel_CsmRemovedDiag"
    @@ <<TRUE, "4", FALSE>> :> "_freqBeamformer_EigValProb_Formulation4AkaTrueLocation_FullCSM"
    @@ <<TRUE, "4", TRUE>> :> "_freqBeamformer_EigValProb_Formulation4AkaTrueLocation_CsmRemovedDiag"
    @@ <<TRUE, "specific", FALSE>> :> "_freqBeamformer_EigValProb_SpecificSteerVec_FullCSM"
    @@ <<TRUE, "specific", TRUE>> :> "_freqBeamformer_EigValProb_SpecificSteerVec_CsmRemovedDiag"

\* coreFunc(csm[cntFreqs, :, :], distGridToArrayCenter, distGridToAllMics, k, normFactor, result)
CoreFuncFormulation(name, m, distGridToArrayCenter, distGridToAllMics, waveNumber, normFactor) ==
    CASE name = "_freqBeamformer_Formulation1AkaClassic_FullCSM" ->
           _freqBeamformer_Formulation1AkaClassic_FullCSM(m, distGridToArrayCenter, distGridToAllMics, waveNumber, normFactor)
      [] name = "_freqBeamformer_Formulation1AkaClassic_CsmRemovedDiag" ->
           _freqBeamformer_Formulation1AkaClassic_CsmRemovedDiag(m, distGridToArrayCenter, distGridToAllMics, waveNumber, normFactor)
      [] name = "_freqBeamformer_Formulation2AkaInverse_FullCSM" ->
           _freqBeamformer_Formulation2AkaInverse_FullCSM(m, distGridToArrayCenter, distGridToAllMics, waveNumber, normFactor)
      [] name = "_freqBeamformer_Formulation2AkaInverse_CsmRemovedDiag" ->
           _freqBeamformer_Formulation2AkaInverse_CsmRemovedDiag(m, distGridToArrayCenter, distGridToAllMics, waveNumber, normFactor)
      [] name = "_freqBeamformer_Formulation3AkaTrueLevel_FullCSM" ->
           _freqBeamformer_Formulation3AkaTrueLevel_FullCSM(m, distGridToArrayCenter, distGridToAllMics, waveNumber, normFactor)
      [] name = "_freqBeamformer_Formulation3AkaTrueLevel_CsmRemovedDiag" ->
           _freqBeamformer_Formulation3AkaTrueLevel_CsmRemovedDiag(m, distGridToArrayCenter, distGridToAllMics, waveNumber, normFactor)
      [] name = "_freqBeamformer_Formulation4AkaTrueLocation_FullCSM" ->
           _freqBeamformer_Formulation4AkaTrueLocation_FullCSM(m, distGridToArrayCenter, distGridToAllMics, waveNumber, normFactor)
      [] name = "_freqBeamformer_Formulation4AkaTrueLocation_CsmRemovedDiag" ->
           _freqBeamformer_Formulation4AkaTrueLocation_CsmRemovedDiag(m, distGridToArrayCenter, distGridToAllMics, waveNumber, normFactor)

\* coreFunc(csm[cntFreqs, :, :], steerVec[cntFreqs, :, :], normFactor, result)
CoreFuncSpecific(name, m, steerVec, normFactor) ==
    CASE name = "_freqBeamformer_SpecificSteerVec_FullCSM" ->
           _freqBeamformer_SpecificSteerVec_FullCSM(m, steerVec, normFactor)
      [] name = "_freqBeamformer_SpecificSteerVec_CsmRemovedDiag" ->
           _freqBeamformer_SpecificSteerVec_CsmRemovedDiag(m, steerVec, normFactor)

\* coreFunc(eigVal[cntFreqs, :], eigVec[cntFreqs, :, :], distGridToArrayCenter, distGridToAllMics, k, normFactor, result)
CoreFuncEigFormulation(name, el, ev, distGridToArrayCenter, distGridToAllMics, waveNumber, normFactor) ==
    CASE name = "_freqBeamformer_EigValProb_Formulation1AkaClassic_FullCSM" ->
           _freqBeamformer_EigValProb_Formulation1AkaClassic_FullCSM(el, ev, distGridToArrayCenter, distGridToAllMics, waveNumber, normFactor)
      [] name = "_freqBeamformer_EigValProb_Formulation1AkaClassic_CsmRemovedDiag" ->
           _freqBeamformer_EigValProb_Formulation1AkaClassic_CsmRemovedDiag(el, ev, distGridToArrayCenter, distGridToAllMics, waveNumber, normFactor)
      [] name = "_freqBeamformer_EigValProb_Formulation2AkaInverse_FullCSM" ->
           _freqBeamformer_EigValProb_Formulation2AkaInverse_FullCSM(el, ev, distGridToArrayCenter, distGridToAllMics, waveNumber, normFactor)
      [] name = "_freqBeamformer_EigValProb_Formulation2AkaInverse_CsmRemovedDiag" ->
           _freqBeamformer_EigValProb_Formulation2AkaInverse_CsmRemovedDiag(el, ev, distGridToArrayCenter, distGridToAllMics, waveNumber, normFactor)
      [] name = "_freqBeamformer_EigValProb_Formulation3AkaTrueLevel_FullCSM" ->
           _freqBeamformer_EigValProb_Formulation3AkaTrueLevel_FullCSM(el, ev, distGridToArrayCenter, distGridToAllMics, waveNumber, normFactor)
      [] name = "_freqBeamformer_EigValProb_Formulation3AkaTrueLevel_CsmRemovedDiag" ->
           _freqBeamformer_EigValProb_Formulation3AkaTrueLevel_CsmRemovedDiag(el, ev, distGridToArrayCenter, distGridToAllMics, waveNumber, normFactor)
      [] name = "_freqBeamformer_EigValProb_Formulation4AkaTrueLocation_FullCSM" ->
           _freqBeamformer_EigValProb_Formulation4AkaTrueLocation_FullCSM(el, ev, distGridToArrayCenter, distGridToAllMics, waveNumber, normFactor)
      [] name = "_freqBeamformer_EigValProb_Formulation4AkaTrueLocation_CsmRemovedDiag" ->
           _freqBeamformer_EigValProb_Formulation4AkaTrueLocation_CsmRemovedDiag(el, ev, distGridToArrayCenter, distGridToAllMics, waveNumber, normFactor)

\* coreFunc(eigVal[cntFreqs, :], eigVec[cntFreqs, :, :], steerVec[cntFreqs, :, :], normFactor, result)
CoreFuncEigSpecific(name, el, ev, steerVec, normFactor) ==
    CASE name = "_freqBeamformer_EigValProb_SpecificSteerVec_FullCSM" ->
           _freqBeamformer_EigValProb_SpecificSteerVec_FullCSM(el, ev, steerVec, normFactor)
      [] name = "_freqBeamformer_EigValProb_SpecificSteerVec_CsmRemovedDiag" ->
           _freqBeamformer_EigValProb_SpecificSteerVec_CsmRemovedDiag(el, ev, steerVec, normFactor)

\* the arrays of the inputTuple, by the position the code reads them from
InSteerVec(c) == c.inputTuple[1]
InDistGridToArrayCenter(c) == c.inputTuple[1]
InDistGridToAllMics(c) == c.inputTuple[2]
InWavenumber(c) == c.inputTuple[3]
InCsm(c) == IF c.steerVecType = "specific" THEN c.inputTuple[2] ELSE c.inputTuple[4]
InEigVal(c) == IF c.steerVecType = "specific" THEN c.inputTuple[2] ELSE c.inputTuple[4]
InEigVec(c) == IF c.steerVecType = "specific" THEN c.inputTuple[3] ELSE c.inputTuple[5]

\* mutant: the real part of the wavenumber is passed on
Imag_RealPart(z) == z.re

\* wavenumber[cntFreqs].imag
Imag(z) == z.im

\* nFreqs, nGridPoints = steerVec.shape[0], steerVec.shape[1], resp.
\* nFreqs, nGridPoints = wavenumber.shape[0], distGridToAllMics.shape[0]
UnpackShape(c) ==
    IF c.steerVecType = "specific"
    THEN [nFreqs |-> Len(InSteerVec(c)), nGridPoints |-> Len(InSteerVec(c)[1])]
    ELSE [nFreqs |-> Len(InWavenumber(c)), nGridPoints |-> Len(InDistGridToAllMics(c))]

\* the array whose slice cntFreqs the loop body takes first
SlicedLength(c) ==
    IF c.boolIsEigValProb
    THEN IF Len(InEigVal(c)) < Len(InEigVec(c)) THEN Len(InEigVal(c)) ELSE Len(InEigVec(c))
    ELSE Len(InCsm(c))

\* one pass of the loop body for the frequency index f: the kernel, broadcast
\* by guvectorize over the grid points
FreqResult(c, name, shape, f) ==
    [g \in 1..shape.nGridPoints |->
        IF c.steerVecType = "specific"
        THEN IF c.boolIsEigValProb
             THEN CoreFuncEigSpecific(name, InEigVal(c)[f], InEigVec(c)[f],
                                      InSteerVec(c)[f][g], c.normFactor)
             ELSE CoreFuncSpecific(name, InCsm(c)[f], InSteerVec(c)[f][g], c.normFactor)
        ELSE IF c.boolIsEigValProb
             THEN CoreFuncEigFormulation(name, InEigVal(c)[f], InEigVec(c)[f],
                                         InDistGridToArrayCenter(c)[g],
                                         InDistGridToAllMics(c)[g],
                                         Imag(InWavenumber(c)[f]), c.normFactor)
             ELSE CoreFuncFormulation(name, InCsm(c)[f],
                                      InDistGridToArrayCenter(c)[g],
                                      InDistGridToAllMics(c)[g],
                                      Imag(InWavenumber(c)[f]), c.normFactor)]

\* the map a call returns when no step of it raises: every pass of the loop
BeamformerFreqMap(c) ==
    [f \in 1..UnpackShape(c).nFreqs |->
        FreqResult(c, beamformerDict[<<c.boolIsEigValProb, c.steerVecType,
                                       c.boolRemovedDiagOfCSM>>],
                   UnpackShape(c), f)]

(***************************************************************************)
(* The caller's side of calcCSM: a zero-filled CSM and one call per        *)
(* ensemble, each with a spectrum of the CSM's shape.                      *)
(***************************************************************************)
SpecVals == {CInt(1, 0), CInt(0, 1)}

ZeroCSM(nF, nM) == [f \in 1..nF |-> [r \in 1..nM |-> [c \in 1..nM |-> CZero]]]

Spectra(nF, nM) == [1..nF -> [1..nM -> SpecVals]]

NoCall == [boolIsEigValProb |-> FALSE, steerVecType |-> "none",
           boolRemovedDiagOfCSM |-> FALSE, normFactor |-> RInt(0), inputTuple |-> <<>>]
NoLocals == [nFreqs |-> 0, nGridPoints |-> 0]

IdleCall ==
    /\ pc = "idle"
    /\ call = NoCall
    /\ coreFunc = "none"
    /\ locals = NoLocals
    /\ beamformOutput = <<>>
    /\ cntFreqs = 0
    /\ events = {}
    /\ raised = "none"

\* no source object exists
NoSource ==
    /\ self = <<>>
    /\ frame = <<>>
    /\ gpc = "none"
    /\ yielded = <<>>
    /\ generated = <<>>

\* no kernel instance, no call of transfer and no calcCSM thread exists
NoWorkers ==
    /\ result = <<>>
    /\ units = <<>>
    /\ writes = <<>>
    /\ transferInput = <<>>
    /\ transferOutput = <<>>
    /\ threads = <<>>
    /\ overlapped = FALSE

Init ==
    /\ \E nF \in FreqCounts, nM \in MicCounts : csm = ZeroCSM(nF, nM)
    /\ SpecAllMics = <<>>
    /\ nEnsembles = 0
    /\ eigVal = <<>>
    /\ eigVec = <<>>
    /\ IdleCall
    /\ NoSource
    /\ NoWorkers

\* the caller passes the spectrum S of one ensemble to calcCSM
CalcCSMOf(S) ==
    /\ pc = "idle"
    /\ nEnsembles < MaxEnsembles
    /\ SpecAllMics' = S
    /\ csm' = calcCSM(csm, S)
    /\ nEnsembles' = nEnsembles + 1
    /\ UNCHANGED <<eigVal, eigVec, pc, call, coreFunc, locals, beamformOutput,
                   cntFreqs, events, raised>>
    /\ UNCHANGED extraVars

CalcCSM ==
    /\ pc = "idle"
    /\ nEnsembles < MaxEnsembles
    /\ \E S \in Spectra(Len(csm), Len(csm[1])) : CalcCSMOf(S)

\* the caller evaluates the arguments and enters beamformerFreq
Call(isEig, type, removedDiag, nf, tuple) ==
    /\ pc = "idle"
    /\ pc' = "lookup"
    /\ call' = [boolIsEigValProb |-> isEig, steerVecType |-> type,
                boolRemovedDiagOfCSM |-> removedDiag, normFactor |-> nf,
                inputTuple |-> tuple]
    /\ SpecAllMics' = <<>>
    /\ UNCHANGED <<csm, nEnsembles, eigVal, eigVec, coreFunc, locals, beamformOutput,
                   cntFreqs, events, raised>>
    /\ UNCHANGED extraVars

\* mutant: a key that is not in the dictionary falls back to a default kernel
Lookup_WithDefault ==
    /\ pc = "lookup"
    /\ LET key == <<call.boolIsEigValProb, call.steerVecType, call.boolRemovedDiagOfCSM>>
       IN coreFunc' = IF key \in DOMAIN beamformerDict THEN beamformerDict[key]
                      ELSE "_freqBeamformer_Formulation1AkaClassic_FullCSM"
    /\ pc' = "prepare"
    /\ UNCHANGED <<csm, SpecAllMics, nEnsembles, eigVal, eigVec, call, locals,
                   beamformOutput, cntFreqs, events, raised>>
    /\ UNCHANGED extraVars

\* coreFunc = beamformerDict[(boolIsEigValProb, steerVecType, boolRemovedDiagOfCSM)]
Lookup ==
    /\ pc = "lookup"
    /\ LET key == <<call.boolIsEigValProb, call.steerVecType, call.boolRemovedDiagOfCSM>>
       IN IF key \in DOMAIN beamformerDict
          THEN /\ coreFunc' = beamformerDict[key]
               /\ pc' = "prepare"
               /\ raised' = raised
          ELSE /\ coreFunc' = coreFunc
               /\ pc' = "raised"
               /\ raised' = "KeyError"
    /\ UNCHANGED <<csm, SpecAllMics, nEnsembles, eigVal, eigVec, call, locals,
                   beamformOutput, cntFreqs, events>>
    /\ UNCHANGED extraVars

\* prepare Input
Prepare ==
    /\ pc = "prepare"
    /\ locals' = UnpackShape(call)
    /\ events' = events \cup {"unpacked"}
    /\ pc' = "alloc"
    /\ UNCHANGED <<csm, SpecAllMics, nEnsembles, eigVal, eigVec, call, coreFunc,
                   beamformOutput, cntFreqs, raised>>
    /\ UNCHANGED extraVars

\* beamformOutput = np.zeros((nFreqs, nGridPoints), np.float64)
Alloc ==
    /\ pc = "alloc"
    /\ beamformOutput' = [f \in 1..locals.nFreqs |-> [g \in 1..locals.nGridPoints |-> RInt(0)]]
    /\ events' = events \cup {"allocated"}
    /\ pc' = IF locals.nFreqs > 0 THEN "loop" ELSE "done"
    /\ UNCHANGED <<csm, SpecAllMics, nEnsembles, eigVal, eigVec, call, coreFunc,
                   locals, cntFreqs, raised>>
    /\ UNCHANGED extraVars

\* one iteration of "for cntFreqs in xrange(nFreqs)"; taking the slice cntFreqs
\* of an array with fewer slices raises IndexError
FreqStep ==
    /\ pc = "loop"
    /\ IF cntFreqs + 1 > SlicedLength(call)
       THEN /\ raised' = "IndexError"
            /\ pc' = "raised"
            /\ UNCHANGED <<beamformOutput, cntFreqs, events>>
       ELSE /\ beamformOutput' = [beamformOutput EXCEPT
                                    ![cntFreqs + 1] = FreqResult(call, coreFunc, locals, cntFreqs + 1)]
            /\ cntFreqs' = cntFreqs + 1
            /\ events' = events \cup {"kernel"}
            /\ pc' = IF cntFreqs + 1 < locals.nFreqs THEN "loop" ELSE "done"
            /\ raised' = raised
    /\ UNCHANGED <<csm, SpecAllMics, nEnsembles, eigVal, eigVec, call, coreFunc, locals>>
    /\ UNCHANGED extraVars

LeaveCall ==
    /\ pc' = "idle"
    /\ call' = NoCall
    /\ coreFunc' = "none"
    /\ locals' = NoLocals
    /\ beamformOutput' = <<>>
    /\ cntFreqs' = 0
    /\ events' = {}
    /\ raised' = "none"
    /\ UNCHANGED <<csm, SpecAllMics, nEnsembles, eigVal, eigVec>>
    /\ UNCHANGED extraVars

\* return beamformOutput: the caller takes the map
Return == pc = "done" /\ LeaveCall

\* the exception leaves beamformerFreq: the caller gets no map
Propagate == pc = "raised" /\ LeaveCall

(***************************************************************************)
(* Spec: spectra are accumulated into the CSM, which is then beamformed on *)
(* the Direct path.  The wavenumber axis is the linear one, k = 1 quarter  *)
(* turn per unit distance at the first frequency.                          *)
(***************************************************************************)
NormFactors == {RInt(1), RInt(2)}
SteerVals == {CInt(1, 0), CInt(1, 1)}
FormulationTypes == {"1", "2", "3", "4"}
UnsupportedTypes == {"5"}

Wavenumber(nF) == [f \in 1..nF |-> [re |-> 0, im |-> f]]
GridToArrayCenter(nG) == [1..nG -> Dists]
GridToAllMics(nG, nM) == [1..nG -> [1..nM -> Dists]]
SteeringVectors(nF, nG, nM) == [1..nF -> [1..nG -> [1..nM -> SteerVals]]]

CallDirectFormulation ==
    /\ pc = "idle"
    /\ \E type \in FormulationTypes, removedDiag \in BOOLEAN, nF \in FreqCounts :
         \E d0 \in GridToArrayCenter(1), dAll \in GridToAllMics(1, Len(csm[1])) :
           Call(FALSE, type, removedDiag, RInt(1), <<d0, dAll, Wavenumber(nF), csm>>)

CallDirectSpecific ==
    /\ pc = "idle"
    /\ \E removedDiag \in BOOLEAN, nF \in FreqCounts :
         \E steerVec \in SteeringVectors(nF, 1, Len(csm[1])) :
           Call(FALSE, "specific", removedDiag, RInt(1), <<steerVec, csm>>)

\* a call with a steerVecType the dictionary does not know, its inputTuple laid
\* out as for the formulations
CallUnsupported ==
    /\ pc = "idle"
    /\ \E isEig \in BOOLEAN, type \in UnsupportedTypes, removedDiag \in BOOLEAN :
           Call(isEig, type, removedDiag, RInt(1),
                IF isEig
                THEN <<[g \in 1..1 |-> 1], [g \in 1..1 |-> [i \in 1..Len(csm[1]) |-> 1]],
                       Wavenumber(1), eigVal, eigVec>>
                ELSE <<[g \in 1..1 |-> 1], [g \in 1..1 |-> [i \in 1..Len(csm[1]) |-> 1]],
                       Wavenumber(1), csm>>)

Next ==
    \/ CalcCSM
    \/ CallDirectFormulation
    \/ CallDirectSpecific
    \/ CallUnsupported
    \/ Lookup
    \/ Prepare
    \/ Alloc
    \/ FreqStep
    \/ Return
    \/ Propagate

Spec == Init /\ [][Next]_vars

(***************************************************************************)
(* SpecKernel: the caller holds a Hermitian positive-semidefinite CSM of   *)
(* one frequency, built from orthonormal eigenvectors and eigenvalues, and *)
(* the first eigenpairs of it; beamformerFreq is called with every key.    *)
(***************************************************************************)
MaxEigVal == 2
MaxWavenumber == 2

IdentityMatrix(nM) == [r \in 1..nM |-> [c \in 1..nM |-> IF r = c THEN CInt(1, 0) ELSE CZero]]

\* matrices with orthonormal columns: ev[mic][eigenpair]
Unitaries(nM) ==
    {IdentityMatrix(nM)}
    \cup (IF nM = 1 THEN {<< <<CInt(0, 1)>> >>} ELSE {})
    \cup (IF nM = 2
          THEN {<< <<Cplx(Rat(3, 5), RInt(0)), Cplx(Rat(-4, 5), RInt(0))>>,
                   <<Cplx(Rat(4, 5), RInt(0)), Cplx(Rat(3, 5), RInt(0))>> >>,
                << <<Cplx(Rat(3, 5), RInt(0)), Cplx(RInt(0), Rat(4, 5))>>,
                   <<Cplx(RInt(0), Rat(4, 5)), Cplx(Rat(3, 5), RInt(0))>> >>}
          ELSE {})

\* sum over the eigenpairs of el[e] * v_e * v_e^H
Reconstruct(el, ev) ==
    [r \in 1..Len(ev) |-> [c \in 1..Len(ev) |->
        CSum([e \in 1..Len(el) |-> CScale(CMul(ev[r][e], CConj(ev[c][e])), el[e])])]]

InitKernel ==
    /\ \E nM \in MicCounts :
         \E ev \in Unitaries(nM), lambda \in [1..nM -> 0..MaxEigVal], nEV \in 1..nM :
            /\ csm = <<Reconstruct([e \in 1..nM |-> RInt(lambda[e])], ev)>>
            /\ eigVal = <<[e \in 1..nEV |-> RInt(lambda[e])]>>
            /\ eigVec = <<[i \in 1..nM |-> [e \in 1..nEV |-> ev[i][e]]]>>
    /\ SpecAllMics = <<>>
    /\ nEnsembles = 0
    /\ IdleCall
    /\ NoSource
    /\ NoWorkers

Wavenumbers1 == {<<[re |-> 0, im |-> k]>> : k \in 1..MaxWavenumber}

CallKernelFormulation ==
    /\ pc = "idle"
    /\ \E isEig \in BOOLEAN, type \in FormulationTypes, removedDiag \in BOOLEAN,
          nf \in NormFactors, wavenumber \in Wavenumbers1 :
         \E d0 \in GridToArrayCenter(1), dAll \in GridToAllMics(1, Len(csm[1])) :
           Call(isEig, type, removedDiag, nf,
                IF isEig THEN <<d0, dAll, wavenumber, eigVal, eigVec>>
                         ELSE <<d0, dAll, wavenumber, csm>>)

CallKernelSpecific ==
    /\ pc = "idle"
    /\ \E isEig \in BOOLEAN, removedDiag \in BOOLEAN, nf \in NormFactors :
         \E steerVec \in SteeringVectors(1, 1, Len(csm[1])) :
           Call(isEig, "specific", removedDiag, nf,
                IF isEig THEN <<steerVec, eigVal, eigVec>> ELSE <<steerVec, csm>>)

NextKernel ==
    \/ CallKernelFormulation
    \/ CallKernelSpecific
    \/ CallUnsupported
    \/ Lookup
    \/ Prepare
    \/ Alloc
    \/ FreqStep
    \/ Return
    \/ Propagate

SpecKernel == InitKernel /\ [][NextKernel]_vars

(***************************************************************************)
(* SpecKernelSmall: the calls of SpecKernel on the CSMs with the           *)
(* eigenvalues 1, 2, ... in this order.                                    *)
(***************************************************************************)
InitKernelSmall ==
    /\ \E nM \in MicCounts :
         \E ev \in Unitaries(nM), nEV \in 1..nM :
            /\ csm = <<Reconstruct([e \in 1..nM |-> RInt(e)], ev)>>
            /\ eigVal = <<[e \in 1..nEV |-> RInt(e)]>>
            /\ eigVec = <<[i \in 1..nM |-> [e \in 1..nEV |-> ev[i][e]]]>>
    /\ SpecAllMics = <<>>
    /\ nEnsembles = 0
    /\ IdleCall
    /\ NoSource
    /\ NoWorkers

SpecKernelSmall == InitKernelSmall /\ [][NextKernel]_vars

(***************************************************************************)
(* SpecEndToEnd: four microphones and one frequency.  Ensembles whose      *)
(* spectrum is the same at every microphone are accumulated into a zero    *)
(* CSM by calcCSM, and beamformerFreq evaluates formulation I on the       *)
(* Direct path at one grid point that coincides with one of the            *)
(* microphones (distance 0) and has the others at a distance from Dists.   *)
(***************************************************************************)
InitEndToEnd ==
    /\ csm = ZeroCSM(1, 4)
    /\ SpecAllMics = <<>>
    /\ nEnsembles = 0
    /\ eigVal = <<>>
    /\ eigVec = <<>>
    /\ IdleCall
    /\ NoSource
    /\ NoWorkers

\* the rows of distances with exactly one microphone at the grid point
CoincidentGridToAllMics(nM) ==
    {dAll \in [1..nM -> Dists \cup {0}] :
        \E i \in 1..nM : dAll[i] = 0 /\ \A o \in 1..nM : o # i => dAll[o] # 0}

\* one ensemble with the in-phase spectrum v at every microphone
CalcCSMInPhase ==
    /\ pc = "idle"
    /\ nEnsembles < MaxEnsembles
    /\ \E v \in SpecVals : CalcCSMOf([f \in 1..Len(csm) |-> [i \in 1..Len(csm[1]) |-> v]])

CallEndToEnd ==
    /\ pc = "idle"
    /\ \E removedDiag \in BOOLEAN, wavenumber \in Wavenumbers1 :
         \E d0 \in GridToArrayCenter(1), dAll \in CoincidentGridToAllMics(Len(csm[1])) :
           Call(FALSE, "1", removedDiag, RInt(1), <<d0, <<dAll>>, wavenumber, csm>>)

NextEndToEnd ==
    \/ CalcCSMInPhase
    \/ CallEndToEnd
    \/ Lookup
    \/ Prepare
    \/ Alloc
    \/ FreqStep
    \/ Return

SpecEndToEnd == InitEndToEnd /\ [][NextEndToEnd]_vars

(***************************************************************************)
(* beamfpy/sources.py: PointSource.result and MovingPointSource.result.    *)
(*                                                                         *)
(* Times, positions and samples are float64 values, modelled by the exact  *)
(* rationals above, extended by the two values a division by zero gives:   *)
(* 0/0 is NaN and x/0 is an infinity.  Positions are 3-vectors             *)
(* <<x, y, z>>; the inputs are chosen so that every square root taken is   *)
(* the root of a perfect square.                                           *)
(***************************************************************************)
MaxSamples == 3
MaxIter == 100

NaN == [n |-> 0, d |-> 0]
IsNaN(x) == x.n = 0 /\ x.d = 0

FAdd(a, b) == IF IsNaN(a) \/ IsNaN(b) THEN NaN ELSE RAdd(a, b)
FSub(a, b) == IF IsNaN(a) \/ IsNaN(b) THEN NaN ELSE RSub(a, b)
FMul(a, b) == IF IsNaN(a) \/ IsNaN(b) THEN NaN ELSE RMul(a, b)
FDiv(a, b) ==
    IF IsNaN(a) \/ IsNaN(b) THEN NaN
    ELSE IF b.n # 0 THEN RDiv(a, b)
    ELSE IF a.n = 0 THEN NaN
    ELSE [n |-> IF a.n < 0 THEN -1 ELSE 1, d |-> 0]

\* a < b for two finite values
RLess(a, b) == a.n * b.d < b.n * a.d

\* abs(x) of a finite value
RAbs(a) == [n |-> Abs(a.n), d |-> a.d]

\* the root of a perfect square; no value for any other number
RECURSIVE ISqrtBound(_, _)
ISqrtBound(k, h) == IF h * h >= k THEN h ELSE ISqrtBound(k, 2 * h)
RECURSIVE ISqrtFrom(_, _, _)
ISqrtFrom(k, lo, hi) ==
    IF lo >= hi THEN lo
    ELSE LET mid == (lo + hi) \div 2
         IN IF mid * mid >= k THEN ISqrtFrom(k, lo, mid) ELSE ISqrtFrom(k, mid + 1, hi)
ExactRoot(k) ==
    LET r == ISqrtFrom(k, 0, ISqrtBound(k, 1))
    IN IF r * r = k THEN r ELSE CHOOSE x \in {} : TRUE
Sqrt(a) == Rat(ExactRoot(a.n), ExactRoot(a.d))

\* the sum over the three coordinates, (a*b).sum(0)
Dot(a, b) == FAdd(FAdd(FMul(a[1], b[1]), FMul(a[2], b[2])), FMul(a[3], b[3]))
VecSub(a, b) == [k \in 1..3 |-> FSub(a[k], b[k])]
Vec(x, y, z) == <<RInt(x), RInt(y), RInt(z)>>

\* env.r(c, loc, mpos) of the free-field Environment: the distance of every
\* microphone from loc
EnvR(loc, mpos) ==
    [m \in 1..Len(mpos) |-> Sqrt(Dot(VecSub(loc, mpos[m]), VecSub(loc, mpos[m])))]

\* tr.location(te) and tr.location(te, der=1) of a trajectory with constant
\* velocity: the position and the velocity at the time te
Location(tr, te) == [k \in 1..3 |-> FAdd(tr.x0[k], FMul(tr.v[k], te))]
LocationDer(tr, te) == tr.v

\* the conversion of a float64 to long by array(..., dtype=long): truncation
\* towards zero
Trunc(a) == IF a.n >= 0 THEN a.n \div a.d ELSE -((-a.n) \div a.d)

\* the values array(0.5+ind*up, dtype=long) can hold for one microphone.  The
\* conversion of NaN is undefined: builds give the most negative long, which is
\* outside of every buffer, or 0.
SampleIndices(ind, up, bufferLen) ==
    IF IsNaN(ind) THEN {0, -bufferLen - 1}
    ELSE {Trunc(FAdd(Rat(1, 2), FMul(ind, RInt(up))))}

\* signal[k] raises IndexError for k outside of -len(signal) .. len(signal)-1
InBuffer(k, bufferLen) == -bufferLen <= k /\ k < bufferLen

\* signal[k]: a negative k counts from the end of the buffer
SignalAt(signal, k) == IF k >= 0 THEN signal[k + 1] ELSE signal[Len(signal) + k + 1]

\* signal[array(...)]/rm for the indices idx of all microphones
OutRow(signal, idx, rm) ==
    [m \in 1..Len(idx) |-> FDiv(RInt(SignalAt(signal, idx[m])), rm[m])]

\* abs(eps).max() > epslim; the maximum of an array holding a NaN is NaN, and
\* NaN > epslim is False
AbsMaxAbove(eps, epslim) ==
    /\ \A m \in 1..Len(eps) : ~IsNaN(eps[m])
    /\ \E m \in 1..Len(eps) : RLess(epslim, RAbs(eps[m]))

\* mutant: the iteration count is not capped
NewtonContinues_NoCap(eps, epslim, j) == AbsMaxAbove(eps, epslim)

\* while abs(eps).max()>epslim and j<100
NewtonContinues(eps, epslim, j) == AbsMaxAbove(eps, epslim) /\ j < MaxIter

\* one pass of the body of the Newton-Raphson loop for the microphone at mpos:
\* the new rm, eps and te of that microphone
NewtonBody(tr, mpos, c0, t, te) ==
    LET loc == Location(tr, te)
        rmVec == VecSub(loc, mpos)
        rm == Sqrt(Dot(rmVec, rmVec))
        norm == Sqrt(Dot(loc, loc))
        unit == [k \in 1..3 |-> FDiv(loc[k], norm)]
        der == LocationDer(tr, te)
        Mr == FDiv(Dot(der, unit), c0)
        eps == FDiv(FSub(FAdd(te, FDiv(rm, c0)), t), FAdd(RInt(1), Mr))
    IN [rm |-> rm, eps |-> eps, te |-> FSub(te, eps)]

\* np.empty((num, numchannels)): rows that hold nothing yet are <<>>
EmptyOut(num) == [r \in 1..num |-> <<>>]

\* mutant: the last block is the whole buffer
FinalBlock_WholeBuffer(out, i) == out

\* out[:i]
FinalBlock(out, i) == SubSeq(out, 1, i)

\* the generator object exists, result has not run yet
NoFrame ==
    [num |-> 0, out |-> <<>>, rm |-> <<>>, ind |-> <<>>, i |-> 0, n |-> 0,
     t |-> <<>>, te |-> <<>>, eps |-> <<>>, j |-> 0, epslim |-> RInt(0)]

\* ind = (-rm/self.c-self.start_t+self.start)*self.sample_freq
EmissionIndex(rm, src) ==
    [m \in 1..Len(rm) |->
       FMul(FAdd(FSub(FDiv(FSub(RInt(0), rm[m]), src.c), src.start_t), src.start),
            RInt(src.sample_freq))]

\* PointSource.result up to the loop: the distances and the emission index of
\* the first sample
ResultPointSource(num) ==
    /\ gpc = "created"
    /\ self.kind = "PointSource"
    /\ LET rm == EnvR(self.loc, self.mpos)
       IN frame' = [NoFrame EXCEPT
                      !.num = num,
                      !.out = EmptyOut(num),
                      !.rm = rm,
                      !.ind = EmissionIndex(rm, self),
                      !.n = self.numsamples]
    /\ gpc' = "while"
    /\ UNCHANGED <<self, yielded, generated>>
    /\ UNCHANGED <<beamVars, workerVars>>

\* MovingPointSource.result up to the loop
ResultMovingPointSource(num) ==
    /\ gpc = "created"
    /\ self.kind = "MovingPointSource"
    /\ frame' = [NoFrame EXCEPT
                   !.num = num,
                   !.out = EmptyOut(num),
                   !.t = [m \in 1..Len(self.mpos) |-> self.start],
                   !.epslim = FDiv(FDiv(Rat(1, 10), RInt(self.up)), RInt(self.sample_freq)),
                   !.n = self.numsamples]
    /\ gpc' = "while"
    /\ UNCHANGED <<self, yielded, generated>>
    /\ UNCHANGED <<beamVars, workerVars>>

\* mutant: the emission times of the sample before start the iteration
InitialTe_Carried(t, te) == IF te = <<>> THEN t ELSE te

\* te = t.copy(): the iteration of every sample starts at the receiving times
InitialTe(t, te) == t

\* while n: n -= 1, and in MovingPointSource the initial values of the iteration
WhileN ==
    /\ gpc = "while"
    /\ frame.n # 0
    /\ IF self.kind = "MovingPointSource"
       THEN /\ frame' = [frame EXCEPT
                           !.n = frame.n - 1,
                           !.eps = [m \in 1..Len(self.mpos) |-> RInt(1)],
                           !.te = InitialTe(frame.t, frame.te),
                           !.j = 0]
            /\ gpc' = "newton"
       ELSE /\ frame' = [frame EXCEPT !.n = frame.n - 1]
            /\ gpc' = "lookup"
    /\ UNCHANGED <<self, yielded, generated>>
    /\ UNCHANGED <<beamVars, workerVars>>

\* while n: n is 0, the loop ends
WhileEnd ==
    /\ gpc = "while"
    /\ frame.n = 0
    /\ gpc' = "final"
    /\ UNCHANGED <<self, frame, yielded, generated>>
    /\ UNCHANGED <<beamVars, workerVars>>

\* one pass of the Newton-Raphson loop, for all microphones
NewtonStep ==
    /\ gpc = "newton"
    /\ NewtonContinues(frame.eps, frame.epslim, frame.j)
    /\ LET body == [m \in 1..Len(self.mpos) |->
                      NewtonBody(self.trajectory, self.mpos[m], self.c,
                                 frame.t[m], frame.te[m])]
       IN frame' = [frame EXCEPT
                      !.rm = [m \in 1..Len(self.mpos) |-> body[m].rm],
                      !.eps = [m \in 1..Len(self.mpos) |-> body[m].eps],
                      !.te = [m \in 1..Len(self.mpos) |-> body[m].te],
                      !.j = frame.j + 1]
    /\ UNCHANGED <<self, gpc, yielded, generated>>
    /\ UNCHANGED <<beamVars, workerVars>>

\* mutant: the receiving time stays where it is
NextReceivingTime_Unchanged(t, sample_freq) == t

\* t += 1./self.sample_freq
NextReceivingTime(t, sample_freq) ==
    [m \in 1..Len(t) |-> FAdd(t[m], Rat(1, sample_freq))]

\* the Newton-Raphson loop ends: t += 1./sample_freq, and the emission index
NewtonExit ==
    /\ gpc = "newton"
    /\ ~NewtonContinues(frame.eps, frame.epslim, frame.j)
    /\ frame' = [frame EXCEPT
                   !.t = NextReceivingTime(frame.t, self.sample_freq),
                   !.ind = [m \in 1..Len(self.mpos) |->
                              FMul(FAdd(FSub(frame.te[m], self.start_t), self.start),
                                   RInt(self.sample_freq))]]
    /\ gpc' = "lookup"
    /\ UNCHANGED <<self, yielded, generated>>
    /\ UNCHANGED <<beamVars, workerVars>>

\* the index arrays array(0.5+ind*up, dtype=long) can be
ArraysOf(choices) ==
    {idx \in [1..Len(choices) -> UNION {choices[m] : m \in 1..Len(choices)}] :
        \A m \in 1..Len(choices) : idx[m] \in choices[m]}
IndexArrays ==
    ArraysOf([m \in 1..Len(frame.ind) |->
                SampleIndices(frame.ind[m], self.up, Len(self.signal))])

\* the body of the try statement: the row of the sample is written into out and,
\* when that fills the buffer, the buffer is yielded; an index outside of the
\* signal raises IndexError, which leaves the loop
SampleLookup ==
    /\ gpc = "lookup"
    /\ \E idx \in IndexArrays :
         IF \A m \in 1..Len(idx) : InBuffer(idx[m], Len(self.signal))
         THEN LET row == OutRow(self.signal, idx, frame.rm)
                  out == [frame.out EXCEPT ![frame.i + 1] = row]
              IN /\ frame' = [frame EXCEPT
                                !.out = out,
                                !.ind = IF self.kind = "PointSource"
                                        THEN [m \in 1..Len(frame.ind) |->
                                                FAdd(frame.ind[m], RInt(1))]
                                        ELSE frame.ind,
                                !.i = frame.i + 1]
                 /\ generated' = Append(generated, row)
                 /\ IF frame.i + 1 = frame.num
                    THEN /\ yielded' = Append(yielded, [rows |-> out, buffer |-> TRUE])
                         /\ gpc' = "yielded"
                    ELSE /\ yielded' = yielded
                         /\ gpc' = "while"
         ELSE /\ gpc' = "final"
              /\ UNCHANGED <<frame, yielded, generated>>
    /\ UNCHANGED self
    /\ UNCHANGED <<beamVars, workerVars>>

\* mutant: every block is written into a buffer of its own
Resume_FreshBuffer ==
    /\ gpc = "yielded"
    /\ frame' = [frame EXCEPT !.i = 0, !.out = EmptyOut(frame.num)]
    /\ gpc' = "while"
    /\ UNCHANGED <<self, yielded, generated>>
    /\ UNCHANGED <<beamVars, workerVars>>

\* the consumer asks for the next block: i = 0 and the loop goes on
Resume ==
    /\ gpc = "yielded"
    /\ frame' = [frame EXCEPT !.i = 0]
    /\ gpc' = "while"
    /\ UNCHANGED <<self, yielded, generated>>
    /\ UNCHANGED <<beamVars, workerVars>>

\* yield out[:i]
FinalYield ==
    /\ gpc = "final"
    /\ yielded' = Append(yielded, [rows |-> FinalBlock(frame.out, frame.i), buffer |-> FALSE])
    /\ gpc' = "finalyield"
    /\ UNCHANGED <<self, frame, generated>>
    /\ UNCHANGED <<beamVars, workerVars>>

\* the consumer asks for a block after the last one: the generator returns
Finish ==
    /\ gpc = "finalyield"
    /\ gpc' = "finished"
    /\ UNCHANGED <<self, frame, yielded, generated>>
    /\ UNCHANGED <<beamVars, workerVars>>

(***************************************************************************)
(* SpecSource: a PointSource or a MovingPointSource with one or two        *)
(* microphones, a unit sample rate and a signal buffer whose k-th sample   *)
(* is k+1; its generator result is run to its end.                         *)
(***************************************************************************)
Nums == {1, 2}
Ups == {1, 2}
BufferLens == {4, 8}
Starts == {RInt(0), RInt(5)}

\* the upsampled signal self.signal.usignal(self.up) gives
Buffer(bufferLen) == [k \in 1..bufferLen |-> k]

\* microphone positions mpos.mpos, one 3-vector per microphone: on the x axis
AxisMics == {<<Vec(0, 0, 0)>>, <<Vec(3, 0, 0)>>, <<Vec(9, 0, 0)>>,
             <<Vec(0, 0, 0), Vec(3, 0, 0)>>, <<Vec(0, 0, 0), Vec(9, 0, 0)>>}
\* at the distances 4 and 5 from the point <<0, 0, 4>>
NearMics == {<<Vec(0, 0, 0)>>, <<Vec(3, 0, 0)>>, <<Vec(0, 0, 0), Vec(3, 0, 0)>>}
\* away from the origin
OffOriginMics == {<<Vec(3, 0, 0)>>, <<Vec(9, 0, 0)>>, <<Vec(3, 0, 0), Vec(9, 0, 0)>>}

\* ahead of a source that moves along the x axis
AheadMics == {<<Vec(9, 0, 0)>>, <<Vec(13, 0, 0)>>, <<Vec(9, 0, 0), Vec(13, 0, 0)>>}

NoTrajectory == [x0 |-> Vec(0, 0, 0), v |-> Vec(0, 0, 0)]

\* trajectories with the sound speed and the microphones they are used with: at
\* rest on the z axis, at rest at the origin, approaching the origin along the
\* x axis at a third of the sound speed, and leaving the origin along the x axis
\* at a third of the sound speed
Motions ==
    {[trajectory |-> [x0 |-> Vec(0, 0, 4), v |-> Vec(0, 0, 0)], c |-> RInt(1), mics |-> NearMics],
     [trajectory |-> [x0 |-> Vec(0, 0, 4), v |-> Vec(0, 0, 0)], c |-> RInt(2), mics |-> NearMics],
     [trajectory |-> [x0 |-> Vec(0, 0, 0), v |-> Vec(0, 0, 0)], c |-> RInt(1), mics |-> OffOriginMics],
     [trajectory |-> [x0 |-> Vec(7, 0, 0), v |-> Vec(-1, 0, 0)], c |-> RInt(3), mics |-> AxisMics],
     [trajectory |-> [x0 |-> Vec(1, 0, 0), v |-> Vec(1, 0, 0)], c |-> RInt(3), mics |-> AheadMics]}

PointSources ==
    {[kind |-> "PointSource", signal |-> Buffer(bufferLen), loc |-> Vec(0, 0, 4),
      mpos |-> mpos, c |-> c, start_t |-> RInt(0), start |-> start, up |-> up,
      numsamples |-> numsamples, sample_freq |-> 1, trajectory |-> NoTrajectory] :
        bufferLen \in BufferLens, mpos \in NearMics, c \in {RInt(1), RInt(2)},
        start \in Starts, up \in Ups, numsamples \in 0..MaxSamples}

MovingPointSources ==
    UNION {{[kind |-> "MovingPointSource", signal |-> Buffer(bufferLen), loc |-> Vec(0, 0, 1),
             mpos |-> mpos, c |-> motion.c, start_t |-> RInt(0), start |-> start, up |-> up,
             numsamples |-> numsamples, sample_freq |-> 1,
             trajectory |-> motion.trajectory] :
               bufferLen \in BufferLens, mpos \in motion.mics,
               start \in Starts, up \in Ups, numsamples \in 0..MaxSamples} :
           motion \in Motions}

InitSource ==
    /\ self \in PointSources \cup MovingPointSources
    /\ frame = NoFrame
    /\ gpc = "created"
    /\ yielded = <<>>
    /\ generated = <<>>
    /\ csm = <<>>
    /\ SpecAllMics = <<>>
    /\ nEnsembles = 0
    /\ eigVal = <<>>
    /\ eigVec = <<>>
    /\ IdleCall
    /\ NoWorkers

CallResult ==
    /\ gpc = "created"
    /\ \E num \in Nums : ResultPointSource(num) \/ ResultMovingPointSource(num)

NextSource ==
    \/ CallResult
    \/ WhileN
    \/ WhileEnd
    \/ NewtonStep
    \/ NewtonExit
    \/ SampleLookup
    \/ Resume
    \/ FinalYield
    \/ Finish

SpecSource == InitSource /\ [][NextSource]_vars

(***************************************************************************)
(* SpecSourceFair: SpecSource with a consumer that iterates over the       *)
(* generator to its end (for block in source.result(num)): the loop of the *)
(* consumer asks for the next block after every yield, and the interpreter *)
(* runs the generator on whenever it is not suspended at a yield.  The     *)
(* second condition is the weak fairness of NextSource, which is enabled   *)
(* in every state that is not suspended, written without ENABLED.          *)
(***************************************************************************)
\* the generator waits at a yield for the consumer, or it has returned
Suspended == gpc \in {"yielded", "finalyield", "finished"}
SpecSourceFair ==
    /\ InitSource
    /\ [][NextSource]_vars
    /\ WF_vars(Resume \/ Finish)
    /\ ([]<>Suspended \/ []<><<NextSource>>_vars)

(***************************************************************************)
(* The transfer functions.                                                 *)
(***************************************************************************)
\* _transferCoreFunc, one grid point: the phasors of the microphones
_transferCoreFunc(distGridToArrayCenter, distGridToAllMics, waveNumber) ==
    [cntMics \in 1..Len(distGridToAllMics) |->
        CDivR(CScale(Phasor(Float32(waveNumber * (distGridToAllMics[cntMics] - distGridToArrayCenter))),
                     RInt(distGridToArrayCenter)),
              RInt(distGridToAllMics[cntMics]))]

\* transfer: transferOutput[cntFreqs, :, :] = result for every frequency
transfer(distGridToArrayCenter, distGridToAllMics, wavenumber) ==
    [f \in 1..Len(wavenumber) |->
        [g \in 1..Len(distGridToAllMics) |->
            _transferCoreFunc(distGridToArrayCenter[g], distGridToAllMics[g],
                              Imag(wavenumber[f]))]]

(***************************************************************************)
(* The frequency loop of beamformerFreq with the kernel as guvectorize     *)
(* runs it (target parallelOption): one instance per grid point, in any    *)
(* order and interleaved.  An instance reads its inputs and computes its   *)
(* value in one step and stores it into its element of result in another.  *)
(***************************************************************************)
\* mutant: every instance stores into the first element of the array
ResultSlot_FirstElement(g) == 1

\* result[0] of the instance of grid point g is element g of the array result
ResultSlot(g) == g

\* result = np.zeros(nGridPoints, np.float64) and the start of the kernel's instances
FreqFork ==
    /\ pc = "loop"
    /\ IF cntFreqs + 1 > SlicedLength(call)
       THEN /\ raised' = "IndexError"
            /\ pc' = "raised"
            /\ UNCHANGED <<result, units>>
       ELSE /\ result' = [g \in 1..locals.nGridPoints |-> RInt(0)]
            /\ units' = [g \in 1..locals.nGridPoints |-> [state |-> "pending", value |-> RInt(0)]]
            /\ pc' = "kernel"
            /\ raised' = raised
    /\ UNCHANGED <<csm, SpecAllMics, nEnsembles, eigVal, eigVec, call, coreFunc, locals,
                   beamformOutput, cntFreqs, events>>
    /\ UNCHANGED <<sourceVars, writes, transferInput, transferOutput, threads, overlapped>>

\* the instance of grid point g runs the kernel's body up to its last statement
UnitCompute(g) ==
    /\ pc = "kernel"
    /\ units[g].state = "pending"
    /\ units' = [units EXCEPT ![g] =
                    [state |-> "computed",
                     value |-> FreqResult(call, coreFunc, locals, cntFreqs + 1)[g]]]
    /\ UNCHANGED beamVars
    /\ UNCHANGED <<sourceVars, result, writes, transferInput, transferOutput, threads, overlapped>>

\* result[0] = ... of the instance of grid point g
UnitWrite(g) ==
    /\ pc = "kernel"
    /\ units[g].state = "computed"
    /\ result' = [result EXCEPT ![ResultSlot(g)] = units[g].value]
    /\ units' = [units EXCEPT ![g].state = "written"]
    /\ writes' = Append(writes, [unit |-> <<cntFreqs + 1, g>>,
                                 slot |-> <<cntFreqs + 1, ResultSlot(g)>>])
    /\ UNCHANGED beamVars
    /\ UNCHANGED <<sourceVars, transferInput, transferOutput, threads, overlapped>>

\* all instances have returned: beamformOutput[cntFreqs, :] = result
FreqJoin ==
    /\ pc = "kernel"
    /\ \A g \in 1..locals.nGridPoints : units[g].state = "written"
    /\ beamformOutput' = [beamformOutput EXCEPT ![cntFreqs + 1] = result]
    /\ cntFreqs' = cntFreqs + 1
    /\ events' = events \cup {"kernel"}
    /\ pc' = IF cntFreqs + 1 < locals.nFreqs THEN "loop" ELSE "done"
    /\ UNCHANGED <<csm, SpecAllMics, nEnsembles, eigVal, eigVec, call, coreFunc, locals, raised>>
    /\ UNCHANGED extraVars

(***************************************************************************)
(* SpecParallel: a CSM of two frequencies with its eigenpairs, two grid    *)
(* points and wavenumbers with real parts.  transfer is called, then       *)
(* beamformerFreq is called once with a steering vector formulation on the *)
(* same geometry and wavenumbers and runs its kernel's instances           *)
(* interleaved.                                                            *)
(***************************************************************************)
RealParts == {0, 3}

\* wavenumber: complex128[2], the wavenumber of frequency f is f
Wavenumbers2 == {<<[re |-> a, im |-> 1], [re |-> b, im |-> 2]>> : a \in RealParts, b \in RealParts}

\* distGridToArrayCenter and distGridToAllMics of two grid points
TwoGridToArrayCenter == <<1, 2>>
TwoGridToAllMics(nM) == <<[i \in 1..nM |-> i], [i \in 1..nM |-> 3 - i]>>

InitParallel ==
    /\ \E nM \in MicCounts :
         \E ev \in Unitaries(nM), lambda \in [1..nM -> 1..MaxEigVal] :
            LET el1 == [e \in 1..nM |-> RInt(lambda[e])]
                el2 == [e \in 1..nM |-> RInt(MaxEigVal - lambda[e])]
            IN /\ csm = <<Reconstruct(el1, ev), Reconstruct(el2, ev)>>
               /\ eigVal = <<el1, el2>>
               /\ eigVec = <<ev, ev>>
    /\ SpecAllMics = <<>>
    /\ nEnsembles = 0
    /\ IdleCall
    /\ NoSource
    /\ NoWorkers

\* transfer(distGridToArrayCenter, distGridToAllMics, wavenumber)
Transfer ==
    /\ pc = "idle"
    /\ transferInput = <<>>
    /\ \E wavenumber \in Wavenumbers2 :
         /\ transferInput' = <<TwoGridToArrayCenter, TwoGridToAllMics(Len(csm[1])), wavenumber>>
         /\ transferOutput' = transfer(TwoGridToArrayCenter, TwoGridToAllMics(Len(csm[1])), wavenumber)
    /\ UNCHANGED beamVars
    /\ UNCHANGED <<sourceVars, result, units, writes, threads, overlapped>>

\* beamformerFreq on the geometry and the wavenumbers transfer was called with
CallParallel ==
    /\ pc = "idle"
    /\ transferInput # <<>>
    /\ writes = <<>>
    /\ \E isEig \in BOOLEAN, type \in FormulationTypes, removedDiag \in BOOLEAN :
         Call(isEig, type, removedDiag, RInt(1),
              IF isEig
              THEN <<transferInput[1], transferInput[2], transferInput[3], eigVal, eigVec>>
              ELSE <<transferInput[1], transferInput[2], transferInput[3], csm>>)

NextParallel ==
    \/ Transfer
    \/ CallParallel
    \/ Lookup
    \/ Prepare
    \/ Alloc
    \/ FreqFork
    \/ \E g \in 1..locals.nGridPoints : UnitCompute(g)
    \/ \E g \in 1..locals.nGridPoints : UnitWrite(g)
    \/ FreqJoin
    \/ Return

SpecParallel == InitParallel /\ [][NextParallel]_vars

(***************************************************************************)
(* calcCSM called for several ensembles at the same time on the same csm.  *)
(* A call walks the entries in the order of its three loops; the statement *)
(* csm[cntFreq, cntRow, cntColumn] += ... is a load of the entry followed  *)
(* by a store of the sum, and steps of other calls can come in between.    *)
(***************************************************************************)
\* the entries <<cntFreq, cntRow, cntColumn>> in the order the loops visit them
RECURSIVE ColumnsFrom(_, _, _)
ColumnsFrom(cntFreq, cntColumn, nMics) ==
    IF cntColumn > nMics THEN <<>>
    ELSE [cntRow \in 1..cntColumn |-> <<cntFreq, cntRow, cntColumn>>]
           \o ColumnsFrom(cntFreq, cntColumn + 1, nMics)

RECURSIVE LoopEntries(_, _, _)
LoopEntries(cntFreq, nFreqs, nMics) ==
    IF cntFreq > nFreqs THEN <<>>
    ELSE ColumnsFrom(cntFreq, 1, nMics) \o LoopEntries(cntFreq + 1, nFreqs, nMics)

CsmEntries == LoopEntries(1, Len(csm), Len(csm[1]))

\* the call has not returned yet
Running(thread) == thread.at <= Len(CsmEntries)

\* mutant: the entry is overwritten with the product
AddToEntry_Overwrite(old, temp, spec) == CMul(temp, spec)

\* csm[cntFreq, cntRow, cntColumn] += temp * SpecAllMics[cntFreq, cntRow], on the loaded value
AddToEntry(old, temp, spec) == CAdd(old, CMul(temp, spec))

\* calcCSM(csm, S) is called, by a caller that does not wait for the calls before
ThreadCall ==
    /\ nEnsembles < MaxEnsembles
    /\ \E S \in Spectra(Len(csm), Len(csm[1])) :
         threads' = Append(threads, [S |-> S, at |-> 1, phase |-> "load", old |-> CZero])
    /\ overlapped' = (overlapped \/ \E t \in 1..Len(threads) : Running(threads[t]))
    /\ nEnsembles' = nEnsembles + 1
    /\ UNCHANGED <<csm, SpecAllMics, eigVal, eigVec, pc, call, coreFunc, locals,
                   beamformOutput, cntFreqs, events, raised>>
    /\ UNCHANGED <<sourceVars, result, units, writes, transferInput, transferOutput>>

\* the call t loads the entry it is at
EntryLoad(t) ==
    /\ Running(threads[t])
    /\ threads[t].phase = "load"
    /\ LET e == CsmEntries[threads[t].at]
       IN threads' = [threads EXCEPT ![t].old = csm[e[1]][e[2]][e[3]],
                                     ![t].phase = "store"]
    /\ UNCHANGED beamVars
    /\ UNCHANGED <<sourceVars, result, units, writes, transferInput, transferOutput, overlapped>>

\* the call t stores the sum into the entry it is at and goes on to the next entry
EntryStore(t) ==
    /\ Running(threads[t])
    /\ threads[t].phase = "store"
    /\ LET e == CsmEntries[threads[t].at]
           S == threads[t].S
       IN csm' = SetEntry(csm, e[1], e[2], e[3],
                          AddToEntry(threads[t].old, CConj(S[e[1]][e[3]]), S[e[1]][e[2]]))
    /\ threads' = [threads EXCEPT ![t].at = threads[t].at + 1, ![t].phase = "load"]
    /\ UNCHANGED <<SpecAllMics, nEnsembles, eigVal, eigVec, pc, call, coreFunc, locals,
                   beamformOutput, cntFreqs, events, raised>>
    /\ UNCHANGED <<sourceVars, result, units, writes, transferInput, transferOutput, overlapped>>

(***************************************************************************)
(* SpecConcurrent: a zero CSM of one frequency and up to MaxEnsembles      *)
(* calls of calcCSM on it, each started at any time.                       *)
(***************************************************************************)
InitConcurrent ==
    /\ \E nM \in MicCounts : csm = ZeroCSM(1, nM)
    /\ SpecAllMics = <<>>
    /\ nEnsembles = 0
    /\ eigVal = <<>>
    /\ eigVec = <<>>
    /\ IdleCall
    /\ NoSource
    /\ NoWorkers

NextConcurrent ==
    \/ ThreadCall
    \/ \E t \in 1..Len(threads) : EntryLoad(t)
    \/ \E t \in 1..Len(threads) : EntryStore(t)

SpecConcurrent == InitConcurrent /\ [][NextConcurrent]_vars

(***************************************************************************)
(* Reference values the claims compare the kernels with.                   *)
(***************************************************************************)
\* the full Hermitian matrix: the upper triangle and its conjugate transpose
HermitianCompletion(m) ==
    [r \in 1..Len(m) |-> [c \in 1..Len(m) |->
        IF r <= c THEN m[r][c] ELSE CConj(m[c][r])]]

\* steer^H * C * steer over the whole matrix C
QuadraticForm(C, steer) ==
    CSum([r \in 1..Len(C) |->
            CSum([c \in 1..Len(C) |-> CMul(CMul(CConj(steer[r]), C[r][c]), steer[c])])])

\* exp(-j * k * dist[m]) for every microphone
Phasors(dists, k) == [i \in 1..Len(dists) |-> Phasor(k * dists[i])]

CallKey == <<call.boolIsEigValProb, call.steerVecType, call.boolRemovedDiagOfCSM>>

(***************************************************************************)
(* Claims about calcCSM and beamformerFreq under Spec.                     *)
(***************************************************************************)
\* C1: a calcCSM call adds conj(SpecAllMics[f,c]) * SpecAllMics[f,r] to every entry
\* csm[f,r,c] with r <= c, for every frequency f and column c.
C1_CalcCSMAddsToUpperTriangle ==
    [][nEnsembles' = nEnsembles + 1 =>
        \A f \in 1..Len(csm) : \A c \in 1..Len(csm[f]) : \A r \in 1..c :
            csm'[f][r][c] = CAdd(csm[f][r][c],
                                 CMul(CConj(SpecAllMics'[f][c]), SpecAllMics'[f][r]))]_vars

\* two ensembles went in and an off-diagonal entry holds a non-real sum
C1_Witness ==
    /\ nEnsembles = 2
    /\ SpecAllMics # <<>>
    /\ Len(csm) = 2 /\ Len(csm[1]) = 2
    /\ csm[2][1][2] = CInt(1, -1)

\* C2: after any sequence of calcCSM calls on a zero-filled CSM every entry with
\* row > column of every frequency slice is still zero.
C2_LowerTriangleStaysZero ==
    \A f \in 1..Len(csm) : \A r \in 1..Len(csm[f]) : \A c \in 1..Len(csm[f]) :
        r > c => csm[f][r][c] = CZero

\* two ensembles went in, the upper triangle is filled and the lower one is not
C2_Witness ==
    /\ nEnsembles = 2
    /\ Len(csm) = 2 /\ Len(csm[2]) = 2
    /\ csm[2][1][2] # CZero
    /\ csm[2][2][1] = CZero

\* C3: on an accumulated CSM and with normFactor 1 the formulation I Full-CSM
\* Direct kernel returns steer^H * C * steer / nMics^2 and the Full-CSM kernel
\* with a caller-supplied steering vector returns steer^H * C * steer, C being the
\* upper triangle completed by its conjugate transpose.
C3_HermitianConsistency ==
    (pc = "done" /\ call.normFactor = RInt(1)) =>
        \A f \in 1..locals.nFreqs : \A g \in 1..locals.nGridPoints :
            LET C == HermitianCompletion(csm[f])
                nMics == Len(csm[f])
            IN /\ CallKey = <<FALSE, "1", FALSE>> =>
                    Cplx(RMul(beamformOutput[f][g], RInt(nMics * nMics)), RInt(0))
                      = QuadraticForm(C, Phasors(InDistGridToAllMics(call)[g],
                                                 InWavenumber(call)[f].im))
               /\ CallKey = <<FALSE, "specific", FALSE>> =>
                    Cplx(beamformOutput[f][g], RInt(0))
                      = QuadraticForm(C, InSteerVec(call)[f][g])

\* a formulation I map of two microphones with different phasors over a CSM with
\* a non-real off-diagonal entry
C3_Witness ==
    /\ pc = "done"
    /\ CallKey = <<FALSE, "1", FALSE>>
    /\ call.normFactor = RInt(1)
    /\ nEnsembles = 2
    /\ Len(csm[1]) = 2
    /\ csm[1][1][2].im # RInt(0)
    /\ InDistGridToAllMics(call)[1][1] # InDistGridToAllMics(call)[1][2]
    /\ beamformOutput[1][1] # RInt(0)

\* C9: a call whose key is not one of the supported ones fails with an error
\* before any input is unpacked, any output allocated or any kernel invoked.
C9_UnsupportedKeyFailsFirst ==
    (pc \notin {"idle", "lookup"}
       /\ call.steerVecType \notin {"1", "2", "3", "4", "specific"}) =>
        /\ pc = "raised"
        /\ raised = "KeyError"
        /\ events = {}
        /\ locals = NoLocals
        /\ beamformOutput = <<>>

\* an unsupported call that has raised
C9_Witness ==
    /\ call.steerVecType = "5"
    /\ raised = "KeyError"
    /\ pc = "raised"

\* C10: beamformerFreq enters its frequency loop only when the CSM (or the eigen
\* arrays) has as many frequency slices as the wavenumber or steering-vector array
\* gives the loop, so that no array is silently cut to the shorter length.
C10_ShapeMismatchDetectedBeforeLoop ==
    pc \in {"loop", "done"} => SlicedLength(call) = locals.nFreqs

(***************************************************************************)
(* Claims about the kernels under SpecKernel.                              *)
(***************************************************************************)
\* the matrix with its diagonal set to zero
WithoutDiagonal(C) ==
    [r \in 1..Len(C) |-> [c \in 1..Len(C) |-> IF r = c THEN CZero ELSE C[r][c]]]

\* the columns of ev are orthonormal
Orthonormal(ev, nEV) ==
    \A a \in 1..nEV : \A b \in 1..nEV :
        CSum([i \in 1..Len(ev) |-> CMul(CConj(ev[i][a]), ev[i][b])])
          = (IF a = b THEN CInt(1, 0) ELSE CZero)

\* el, ev hold all nMics eigenpairs of the positive-semidefinite Hermitian matrix C
IsFullDecomposition(C, el, ev) ==
    /\ Len(el) = Len(C)
    /\ Len(ev) = Len(C)
    /\ \A e \in 1..Len(el) : el[e].n >= 0
    /\ Orthonormal(ev, Len(el))
    /\ Reconstruct(el, ev) = C
    /\ HermitianCompletion(C) = C

\* the same call on the other path, with the caller's CSM resp. eigenpairs
DirectCounterpart(c) ==
    [c EXCEPT !.boolIsEigValProb = FALSE,
              !.inputTuple = IF c.steerVecType = "specific"
                             THEN <<InSteerVec(c), csm>>
                             ELSE <<InDistGridToArrayCenter(c), InDistGridToAllMics(c),
                                    InWavenumber(c), csm>>]

\* the same call with the other diagonal-removal setting
RemovedDiagCounterpart(c) == [c EXCEPT !.boolRemovedDiagOfCSM = TRUE]

\* the scale the formulation gives the phasor of a microphone at distance d
RefScale(type, d) ==
    CASE type = "1" -> RInt(1)
      [] type = "2" -> RInt(d)
      [] type \in {"3", "4"} -> Rat(1, d)

\* the steering vector of the claim: the scaled phasors of a formulation, or the
\* caller's vector
RefSteer(c, f, g) ==
    IF c.steerVecType = "specific" THEN InSteerVec(c)[f][g]
    ELSE [i \in 1..Len(InDistGridToAllMics(c)[g]) |->
            CScale(Phasor(InWavenumber(c)[f].im * InDistGridToAllMics(c)[g][i]),
                   RefScale(c.steerVecType, InDistGridToAllMics(c)[g][i]))]

SumInvSquares(dists) == RSum([i \in 1..Len(dists) |-> Rat(1, dists[i] * dists[i])])

\* what the formulation divides the assembled scalar by
RefDivisor(c, g) ==
    LET nMics == Len(InDistGridToAllMics(c)[g])
        d0 == RInt(InDistGridToArrayCenter(c)[g])
        s == SumInvSquares(InDistGridToAllMics(c)[g])
    IN CASE c.steerVecType = "1" -> RInt(nMics * nMics)
         [] c.steerVecType = "2" -> RMul(RMul(RInt(nMics), d0), RMul(RInt(nMics), d0))
         [] c.steerVecType = "3" -> RMul(RMul(d0, s), RMul(d0, s))
         [] c.steerVecType = "4" -> RMul(RInt(nMics), s)
         [] c.steerVecType = "specific" -> RInt(1)

\* the matrix the call evaluates: the CSM, or the sum of the kept eigenpairs
RefMatrix(c, f) ==
    IF c.boolIsEigValProb THEN Reconstruct(InEigVal(c)[f], InEigVec(c)[f])
    ELSE HermitianCompletion(InCsm(c)[f])

\* the assembled scalar: steer^H * C * steer, without C's diagonal when removed
RefAssembled(c, f, g) ==
    QuadraticForm(IF c.boolRemovedDiagOfCSM THEN WithoutDiagonal(RefMatrix(c, f))
                  ELSE RefMatrix(c, f),
                  RefSteer(c, f, g))

\* sum_m csm[m,m] * |steer[m]|^2
DiagContributionDirect(c, f, g) ==
    CSum([i \in 1..Len(InCsm(c)[f]) |->
            CScale(InCsm(c)[f][i][i], AbsSquared(RefSteer(c, f, g)[i]))])

\* sum over the kept eigenpairs e of eigVal[e] * sum_m |conj(eigVec[m,e]) * steer[m]|^2
DiagContributionEigen(c, f, g) ==
    RSum([e \in 1..Len(InEigVal(c)[f]) |->
            RMul(InEigVal(c)[f][e],
                 RSum([i \in 1..Len(InEigVec(c)[f]) |->
                         AbsSquared(CMul(CConj(InEigVec(c)[f][i][e]),
                                         RefSteer(c, f, g)[i]))]))])

\* C4: when eigVal, eigVec hold all nMics eigenpairs of the positive-semidefinite
\* Hermitian CSM, the map of a call with boolIsEigValProb = True equals the map of
\* the call with boolIsEigValProb = False, the same steerVecType, the same
\* boolRemovedDiagOfCSM and the same normFactor.
C4_EigenEqualsDirect ==
    (pc = "done" /\ call.boolIsEigValProb
       /\ \A f \in 1..Len(csm) : IsFullDecomposition(csm[f], eigVal[f], eigVec[f])) =>
        beamformOutput = BeamformerFreqMap(DirectCounterpart(call))

\* a finished Eigen call of formulation III without the diagonal, on all eigenpairs of
\* a CSM with two different eigenvalues and non-real eigenvectors
C4_Witness ==
    /\ pc = "done"
    /\ CallKey = <<TRUE, "3", TRUE>>
    /\ Len(csm[1]) = 2
    /\ IsFullDecomposition(csm[1], eigVal[1], eigVec[1])
    /\ eigVal[1][1] # eigVal[1][2]
    /\ csm[1][1][2].im # RInt(0)
    /\ beamformOutput[1][1] # RInt(0)

\* C5: the Full-CSM result minus the Diagonal-Removed result of the same inputs and
\* formulation is, up to the formulation's divisor and normFactor, the diagonal
\* contribution: sum_m csm[m,m]*|steer[m]|^2 on the Direct path and the sum over the
\* kept eigenpairs e of eigVal[e] * sum_m |conj(eigVec[m,e])*steer[m]|^2 on the
\* Eigen path.
C5_DiagonalRemovalConsistency ==
    (pc = "done" /\ ~call.boolRemovedDiagOfCSM) =>
        \A f \in 1..locals.nFreqs : \A g \in 1..locals.nGridPoints :
            LET removed == BeamformerFreqMap(RemovedDiagCounterpart(call))[f][g]
                diff == RSub(beamformOutput[f][g], removed)
                scaled == RDiv(RMul(diff, RefDivisor(call, g)), call.normFactor)
            IN IF call.boolIsEigValProb
               THEN scaled = DiagContributionEigen(call, f, g)
               ELSE Cplx(scaled, RInt(0)) = DiagContributionDirect(call, f, g)

\* a finished Full-CSM Eigen call of formulation II on one kept eigenpair out of two,
\* whose result differs from the Diagonal-Removed one
C5_Witness ==
    /\ pc = "done"
    /\ CallKey = <<TRUE, "2", FALSE>>
    /\ Len(eigVec[1]) = 2
    /\ Len(eigVal[1]) = 1
    /\ beamformOutput # BeamformerFreqMap(RemovedDiagCounterpart(call))

\* C6 as claimed: with a single microphone the Full-CSM kernels of the four
\* formulations return the same scalar for the same csm (or eigenpairs), distances,
\* wavenumber and normFactor.
C6_SingleMicAllFormulationsAgree ==
    (pc = "done" /\ Len(csm[1]) = 1
       /\ ~call.boolRemovedDiagOfCSM /\ call.steerVecType \in FormulationTypes) =>
        \A type \in FormulationTypes :
            beamformOutput = BeamformerFreqMap([call EXCEPT !.steerVecType = type])

\* C6 as amended: they return the same scalar when the distance to the array centre
\* equals the distance to the single microphone.
C6_SingleMicAgreeAtArrayCenter ==
    (pc = "done" /\ Len(csm[1]) = 1
       /\ ~call.boolRemovedDiagOfCSM /\ call.steerVecType \in FormulationTypes
       /\ \A g \in 1..locals.nGridPoints :
             InDistGridToArrayCenter(call)[g] = InDistGridToAllMics(call)[g][1]) =>
        \A type \in FormulationTypes :
            beamformOutput = BeamformerFreqMap([call EXCEPT !.steerVecType = type])

\* a finished formulation III call on one microphone at distance 2 from the grid
\* point, the array centre at the same distance, with a non-zero result
C6_Witness ==
    /\ pc = "done"
    /\ CallKey = <<FALSE, "3", FALSE>>
    /\ Len(csm[1]) = 1
    /\ InDistGridToArrayCenter(call)[1] = 2
    /\ InDistGridToAllMics(call)[1][1] = 2
    /\ beamformOutput[1][1] # RInt(0)

\* C7: every kernel of formulation I, II, III, IV returns normFactor times the
\* assembled scalar divided by nMics^2, (nMics*distGridToArrayCenter)^2,
\* (distGridToArrayCenter * sum_m 1/dist[m]^2)^2 and nMics * sum_m 1/dist[m]^2
\* respectively, the assembled scalar being built from phasors scaled by 1, dist[m],
\* 1/dist[m] and 1/dist[m]; the same in the Full-CSM, Diagonal-Removed, Direct and
\* Eigen variants.
C7_FormulationNormalizations ==
    (pc = "done" /\ call.steerVecType \in FormulationTypes) =>
        \A f \in 1..locals.nFreqs : \A g \in 1..locals.nGridPoints :
            Cplx(RMul(beamformOutput[f][g], RefDivisor(call, g)), RInt(0))
              = CScale(RefAssembled(call, f, g), call.normFactor)

\* a finished Diagonal-Removed Eigen call of formulation IV on two microphones at
\* different distances, with a non-zero result
C7_Witness ==
    /\ pc = "done"
    /\ CallKey = <<TRUE, "4", TRUE>>
    /\ Len(eigVec[1]) = 2
    /\ InDistGridToAllMics(call)[1][1] # InDistGridToAllMics(call)[1][2]
    /\ call.normFactor = RInt(2)
    /\ beamformOutput[1][1] # RInt(0)

(***************************************************************************)
(* Claims about the scenario of SpecEndToEnd.                              *)
(***************************************************************************)
\* the CSM after one ensemble whose spectrum is 1 at each of the nM microphones
UnitEnsembleCSM(nM) == calcCSM(ZeroCSM(1, nM), <<[i \in 1..nM |-> CInt(1, 0)]>>)

\* the call of the scenario has returned its map
EndToEndScenarioDone ==
    /\ pc = "done"
    /\ CallKey = <<FALSE, "1", FALSE>>
    /\ call.normFactor = RInt(1)
    /\ Len(InDistGridToAllMics(call)[1]) = 4
    /\ \E i \in 1..4 : InDistGridToAllMics(call)[1][i] = 0
    /\ InCsm(call) = UnitEnsembleCSM(4)

\* sum_m exp(-j*k*distGridToAllMics[m]) of the call
EndToEndPhasorSum ==
    CSum(Phasors(InDistGridToAllMics(call)[1], InWavenumber(call)[1].im))

\* C8 as claimed: in the scenario the Formulation I Full-CSM output equals the
\* square (sum_m phasor[m])^2 of the complex phasor sum, divided by nMics^2.
C8_EndToEndSquareOfSum ==
    EndToEndScenarioDone =>
        Cplx(beamformOutput[1][1], RInt(0))
          = CDivR(CMul(EndToEndPhasorSum, EndToEndPhasorSum), RInt(4 * 4))

\* C8 as amended: in the scenario the Formulation I Full-CSM output equals the
\* squared magnitude |sum_m phasor[m]|^2 of the phasor sum, divided by nMics^2.
C8_EndToEndSquaredMagnitudeOfSum ==
    EndToEndScenarioDone =>
        beamformOutput[1][1] = RDiv(AbsSquared(EndToEndPhasorSum), RInt(4 * 4))

\* the scenario with a phasor sum that is not real, and a non-zero output
C8_Witness ==
    /\ EndToEndScenarioDone
    /\ EndToEndPhasorSum.im # RInt(0)
    /\ EndToEndPhasorSum.re # RInt(0)
    /\ beamformOutput[1][1] # RInt(0)

(***************************************************************************)
(* Claims about the sources under SpecSource.                              *)
(***************************************************************************)
ZeroVec == Vec(0, 0, 0)

\* the Newton-Raphson loop of the current sample has ended
NewtonLoopEnded == gpc = "newton" /\ ~NewtonContinues(frame.eps, frame.epslim, frame.j)

\* C11: for a trajectory with a constant location and zero velocity, the
\* Newton-Raphson iteration of MovingPointSource.result ends every sample with
\* te = t - r/c for every microphone, r being the distance from the source to
\* that microphone.
C11_StationaryClosedForm ==
    (NewtonLoopEnded /\ self.trajectory.v = ZeroVec) =>
        \A m \in 1..Len(self.mpos) :
            frame.te[m] = FSub(frame.t[m],
                               FDiv(EnvR(self.trajectory.x0, self.mpos)[m], self.c))

\* C12: for every output sample the Newton-Raphson loop of
\* MovingPointSource.result makes at most 100 passes; it goes on exactly while
\* max|eps| over all microphones is above epslim = 0.1/(up*sample_freq) and fewer
\* than 100 passes were made; when it ends, also after 100 passes without
\* convergence, no error is raised, te stays as it is and the row of the sample is
\* looked up with the index computed from that te.
C12_NewtonCapAndExit ==
    [][/\ gpc = "newton" =>
            /\ frame.j <= 100
            /\ IF AbsMaxAbove(frame.eps, Rat(1, 10 * self.up * self.sample_freq))
                  /\ frame.j < 100
               THEN gpc' = "newton" /\ frame'.j = frame.j + 1
               ELSE gpc' = "lookup" /\ frame'.te = frame.te /\ frame'.j = frame.j
       /\ (gpc = "lookup" /\ self.kind = "MovingPointSource" /\ generated' # generated) =>
            \E idx \in ArraysOf([m \in 1..Len(self.mpos) |->
                                    SampleIndices(
                                      FMul(FAdd(FSub(frame.te[m], self.start_t), self.start),
                                           RInt(self.sample_freq)),
                                      self.up, Len(self.signal))]) :
               /\ \A m \in 1..Len(idx) : InBuffer(idx[m], Len(self.signal))
               /\ generated' = Append(generated, OutRow(self.signal, idx, frame.rm))
      ]_vars

\* a row was looked up after 100 passes that did not converge
C12_Witness ==
    /\ self.kind = "MovingPointSource"
    /\ gpc \in {"while", "yielded"}
    /\ frame.j = 100
    /\ AbsMaxAbove(frame.eps, frame.epslim)
    /\ generated # <<>>

\* the index array of the sample that is looked up holds, for some microphone, an
\* index below 0 or at or beyond the length of the signal buffer
IndexOutsideBuffer ==
    /\ gpc = "lookup"
    /\ \A m \in 1..Len(frame.ind) : ~IsNaN(frame.ind[m])
    /\ \E idx \in IndexArrays : \E m \in 1..Len(idx) :
          idx[m] < 0 \/ idx[m] >= Len(self.signal)

\* C13: in PointSource.result and MovingPointSource.result, whenever the sample
\* index computed for some microphone falls outside the signal buffer, below 0 as
\* well as at or beyond its length, generation stops and no output row is produced
\* from that index.
C13_OutsideBufferStops ==
    [][IndexOutsideBuffer => (gpc' = "final" /\ generated' = generated /\ yielded' = yielded)]_vars

\* the rows of the first k yielded blocks, one after the other
RECURSIVE RowsOfBlocks(_, _)
RowsOfBlocks(blocks, k) ==
    IF k = 0 THEN <<>> ELSE RowsOfBlocks(blocks, k - 1) \o blocks[k].rows

\* the generator has yielded its last block
GeneratorEnded == gpc \in {"finalyield", "finished"}

\* C14: the rows generated before the buffer is exhausted or numsamples is reached
\* are returned: the yielded blocks, one after the other, are the generated rows;
\* every block but the last has exactly num rows and the last block has fewer than
\* num rows.
C14_PartialOutputReturned ==
    LET last == Len(yielded)
        rows == RowsOfBlocks(yielded, last)
    IN /\ Len(rows) <= Len(generated)
       /\ rows = SubSeq(generated, 1, Len(rows))
       /\ ~GeneratorEnded => \A k \in 1..last : Len(yielded[k].rows) = frame.num
       /\ GeneratorEnded =>
            /\ rows = generated
            /\ last >= 1
            /\ \A k \in 1..(last - 1) : Len(yielded[k].rows) = frame.num
            /\ Len(yielded[last].rows) < frame.num

\* a generator that ended after a full block and a last block of one row
C14_Witness ==
    /\ gpc = "finished"
    /\ Len(yielded) = 2
    /\ Len(yielded[1].rows) = 2
    /\ Len(yielded[2].rows) = 1
    /\ Len(generated) = 3

(***************************************************************************)
(* Claims about what the kernels read and build, under SpecKernelSmall.    *)
(***************************************************************************)
\* values that entries the kernels are said not to read are overwritten with
OtherEntries == {CInt(5, -3), CInt(0, 7)}

\* the call with the CSM m in place of its own
WithCsm(c, m) ==
    [c EXCEPT !.inputTuple[IF c.steerVecType = "specific" THEN 2 ELSE 4] = m]

\* the CSM with the entries below the diagonal, and with alsoDiagonal those on it,
\* replaced: the entry of row r becomes other[r]
Overwritten(m, other, alsoDiagonal) ==
    [f \in 1..Len(m) |-> [r \in 1..Len(m[f]) |-> [c \in 1..Len(m[f]) |->
        IF r > c \/ (alsoDiagonal /\ r = c) THEN other[r] ELSE m[f][r][c]]]]

\* C17: every Direct kernel reads only its part of the CSM: the map of a Direct
\* call stays the same whatever the entries with row > column are replaced with,
\* and the map of a Diagonal-Removed Direct call stays the same whatever the
\* entries with row >= column are replaced with.
C17_DirectKernelsReadUpperTriangle ==
    (pc = "done" /\ ~call.boolIsEigValProb) =>
        \A other \in [1..Len(InCsm(call)[1]) -> OtherEntries] :
            beamformOutput = BeamformerFreqMap(
                WithCsm(call, Overwritten(InCsm(call), other, call.boolRemovedDiagOfCSM)))

\* a finished Diagonal-Removed Direct call of formulation IV on a CSM of two
\* microphones whose entries on and off the diagonal are not zero
C17_Witness ==
    /\ pc = "done"
    /\ CallKey = <<FALSE, "4", TRUE>>
    /\ Len(csm[1]) = 2
    /\ csm[1][1][1] # CZero
    /\ csm[1][2][1] # CZero
    /\ beamformOutput[1][1] # RInt(0)
    /\ Overwritten(InCsm(call), [r \in 1..2 |-> CInt(5, -3)], TRUE) # InCsm(call)

\* the scaled phasors of the call's formulation at grid point g whose phase argument
\* is waveNumber * (distGridToAllMics[i] - offset)
RefSteerWithOffset(c, f, g, offset) ==
    [i \in 1..Len(InDistGridToAllMics(c)[g]) |->
        CScale(Phasor(InWavenumber(c)[f].im * (InDistGridToAllMics(c)[g][i] - offset)),
               RefScale(c.steerVecType, InDistGridToAllMics(c)[g][i]))]

\* the steering vector the kernel of the running Eigen call builds at grid point g
BuiltEigSteerVec(f, g) ==
    EigSteerVec(coreFunc, InDistGridToArrayCenter(call)[g], InDistGridToAllMics(call)[g],
                InWavenumber(call)[f].im)

\* a finished Eigen call with a steering vector formulation
EigFormulationDone ==
    pc = "done" /\ call.boolIsEigValProb /\ call.steerVecType # "specific"

UnitFactors == {CInt(0, -1), CInt(-1, 0), CInt(0, 1)}

\* the call of the 'specific' kernel of the same path and diagonal setting with the
\* steering vectors of call c, every element multiplied by u
AsSpecificScaled(c, u) ==
    LET shape == UnpackShape(c)
        sv == [f \in 1..shape.nFreqs |-> [g \in 1..shape.nGridPoints |->
                 [i \in 1..Len(RefSteer(c, f, g)) |-> CMul(u, RefSteer(c, f, g)[i])]]]
    IN [c EXCEPT !.steerVecType = "specific",
                 !.inputTuple = IF c.boolIsEigValProb
                                THEN <<sv, InEigVal(c), InEigVec(c)>>
                                ELSE <<sv, InCsm(c)>>]

\* C20: phase-offset cancellation: the output of every Direct and every Eigen kernel,
\* Full-CSM and Diagonal-Removed, is the one the steering vector with every element
\* multiplied by a common factor of magnitude one gives; the kernels that subtract
\* distGridToArrayCenter in the phase argument and those that do not return the same.
C20_PhaseOffsetCancels ==
    pc = "done" =>
        \A u \in UnitFactors :
            \A f \in 1..locals.nFreqs : \A g \in 1..locals.nGridPoints :
                RMul(beamformOutput[f][g], RefDivisor(call, g))
                  = BeamformerFreqMap(AsSpecificScaled(call, u))[f][g]

\* a finished Diagonal-Removed Eigen call of formulation II on two microphones with
\* distGridToArrayCenter a quarter turn away, whose result is not zero
C20_Witness ==
    /\ pc = "done"
    /\ CallKey = <<TRUE, "2", TRUE>>
    /\ Len(eigVec[1]) = 2
    /\ InWavenumber(call)[1].im * InDistGridToArrayCenter(call)[1] = 1
    /\ InDistGridToAllMics(call)[1][1] # InDistGridToAllMics(call)[1][2]
    /\ beamformOutput[1][1] # RInt(0)

(***************************************************************************)
(* Claims about the kernel's instances and the wavenumber, under           *)
(* SpecParallel.                                                           *)
(***************************************************************************)
\* C15: in beamformerFreq the instance for (frequency f, grid point g) writes only
\* the output slot [f, g]: under any interleaving no two instances write the same
\* location, and the final map is the one of the sequential evaluation.
C15_UnitsWriteDisjointSlots ==
    /\ \A i \in 1..Len(writes) : writes[i].slot = writes[i].unit
    /\ \A i \in 1..Len(writes) : \A j \in 1..Len(writes) :
          i # j => writes[i].slot # writes[j].slot
    /\ pc = "done" => beamformOutput = BeamformerFreqMap(call)

\* a finished call whose instances of the second grid point stored first, with
\* different values at the two grid points
C15_Witness ==
    /\ pc = "done"
    /\ Len(writes) = 4
    /\ writes[1].unit = <<1, 2>>
    /\ writes[3].unit = <<2, 2>>
    /\ beamformOutput[1][1] # beamformOutput[1][2]
    /\ beamformOutput[2][1] # beamformOutput[2][2]

\* real parts a wavenumber could have as well
OtherRealParts == {-1, 3}

\* the wavenumbers with the real part r at frequency f
WithRealPart(wavenumber, f, r) ==
    [wavenumber EXCEPT ![f] = [re |-> r, im |-> wavenumber[f].im]]

\* C18: the real part of each wavenumber is unused: the map of beamformerFreq
\* (formulations 1-4) and the output of transfer at a frequency are those of the
\* call whose wavenumber of that frequency has the same imaginary part and any
\* other real part.
C18_RealPartOfWavenumberUnused ==
    /\ pc = "done" =>
         \A f \in 1..locals.nFreqs : \A g \in 1..locals.nGridPoints :
            \A r \in OtherRealParts :
                beamformOutput[f][g] = BeamformerFreqMap(
                    [call EXCEPT !.inputTuple[3] = WithRealPart(InWavenumber(call), f, r)])[f][g]
    /\ transferOutput # <<>> =>
         \A f \in 1..Len(transferInput[3]) : \A r \in OtherRealParts :
            transferOutput[f] = transfer(transferInput[1], transferInput[2],
                                         WithRealPart(transferInput[3], f, r))[f]

\* transfer and a call of formulation III have returned for wavenumbers with the
\* real parts 3 and 0; the map and the transfer functions depend on the frequency
C18_Witness ==
    /\ pc = "done"
    /\ CallKey = <<FALSE, "3", FALSE>>
    /\ InWavenumber(call)[1].re = 3
    /\ InWavenumber(call)[2].re = 0
    /\ transferInput[3] = InWavenumber(call)
    /\ transferOutput[1] # transferOutput[2]
    /\ beamformOutput[1] # beamformOutput[2]

(***************************************************************************)
(* Claims about concurrent calls of calcCSM, under SpecConcurrent.         *)
(***************************************************************************)
\* what the call with the spectrum S adds to the entry [f, r, c]
Contribution(S, f, r, c) == IF r <= c THEN CMul(S[f][r], CConj(S[f][c])) ELSE CZero

\* all MaxEnsembles calls have been made and have returned
AllCallsReturned ==
    Len(threads) = MaxEnsembles /\ \A t \in 1..Len(threads) : ~Running(threads[t])

\* C16: the CSM accumulator is not safe for concurrent ensembles: calls of calcCSM
\* that run one after the other on the same CSM always leave the sum of all their
\* contributions in it, and only calls that run interleaved, with the load and
\* the store of an entry apart, can leave an entry without a contribution.
C16_SequentialCallsYieldSum ==
    (AllCallsReturned /\ ~overlapped) =>
        \A f \in 1..Len(csm) : \A r \in 1..Len(csm[f]) : \A c \in 1..Len(csm[f]) :
            csm[f][r][c] = CSum([t \in 1..Len(threads) |-> Contribution(threads[t].S, f, r, c)])

\* interleaved calls have returned and the entry [1, 1, 2] holds the contribution of
\* the last call alone: the contributions of the calls before are lost
C16_Witness ==
    /\ AllCallsReturned
    /\ overlapped
    /\ Len(csm[1]) = 2
    /\ csm[1][1][2] = Contribution(threads[Len(threads)].S, 1, 1, 2)
    /\ csm[1][1][2] # CSum([t \in 1..Len(threads) |-> Contribution(threads[t].S, 1, 1, 2)])

(***************************************************************************)
(* Claims about the retarded-time iteration, under SpecSource.             *)
(***************************************************************************)
\* the velocity of the source at the time te projected onto the unit vector that
\* points from the position of the source at te to the microphone at mpos, divided
\* by the sound speed
MachTowardsMic(tr, mpos, c0, te) ==
    LET toMic == VecSub(mpos, Location(tr, te))
        dist == Sqrt(Dot(toMic, toMic))
    IN FDiv(Dot(LocationDer(tr, te), [k \in 1..3 |-> FDiv(toMic[k], dist)]), c0)

\* C21: in the retarded-time iteration the radial Mach number Mr used for microphone
\* m is the source velocity at te projected onto the unit vector pointing from the
\* source position at te to microphone m, divided by the sound speed: every pass
\* sets eps to (te + rm/c0 - t)/(1 + Mr) with this Mr.
C21_MachAlongSourceToMic ==
    [][(gpc = "newton" /\ gpc' = "newton") =>
          \A m \in 1..Len(self.mpos) :
              frame'.eps[m] =
                  FDiv(FSub(FAdd(frame.te[m], FDiv(frame'.rm[m], self.c)), frame.t[m]),
                       FAdd(RInt(1), MachTowardsMic(self.trajectory, self.mpos[m], self.c,
                                                    frame.te[m])))]_vars

\* the loop of MovingPointSource.result enters the solve of a sample after it has
\* solved another one
NextSampleStarts ==
    gpc = "while" /\ gpc' = "newton" /\ frame.te # <<>>

\* C22 as stated: the emission time te found for one output sample is carried
\* forward and used as the starting value of the Newton-Raphson iteration of the
\* next output sample.
C22_EmissionTimeCarriedForward ==
    [][NextSampleStarts => frame'.te = frame.te]_vars

\* C22: the Newton-Raphson iteration of every output sample starts at the receiving
\* times t of that sample (te = t.copy()), whatever emission times the sample
\* before has found.
C22_IterationStartsAtReceivingTime ==
    [][NextSampleStarts => frame'.te = frame.t /\ frame'.t = frame.t]_vars

\* the iteration of the second sample is about to start at te = t, and the emission
\* index of the first sample shows that its emission time was another one
C22_Witness ==
    /\ gpc = "newton"
    /\ frame.j = 0
    /\ Len(generated) = 1
    /\ frame.te = frame.t
    /\ \E m \in 1..Len(self.mpos) :
           /\ frame.ind[m].d # 0
           /\ frame.ind[m] # FMul(FAdd(FSub(frame.te[m], self.start_t), self.start),
                                  RInt(self.sample_freq))
           /\ frame.ind[m] # FMul(FAdd(FSub(FSub(frame.te[m], Rat(1, self.sample_freq)),
                                            self.start_t), self.start),
                                  RInt(self.sample_freq))

\* the emission time the loop of lines 147-160 finds for the microphone at mpos when
\* the array holds this microphone alone: the passes go on from the values eps, te
\* and j while the loop condition holds for this one microphone
RECURSIVE SolveAloneFrom(_, _, _, _, _, _, _, _)
SolveAloneFrom(tr, mpos, c0, t, epslim, eps, te, j) ==
    IF NewtonContinues(<<eps>>, epslim, j)
    THEN LET body == NewtonBody(tr, mpos, c0, t, te)
         IN SolveAloneFrom(tr, mpos, c0, t, epslim, body.eps, body.te, j + 1)
    ELSE te
SolveAlone(tr, mpos, c0, t, epslim) ==
    SolveAloneFrom(tr, mpos, c0, t, epslim, RInt(1), InitialTe(t, <<>>), 0)

\* C23: the retarded-time solve is independent per microphone: the emission time
\* computed for microphone m in a sample depends only on the trajectory, the sound
\* speed, t and the position of microphone m, so it is the emission time that is
\* computed when the array holds microphone m alone.
C23_SolveIndependentPerMicrophone ==
    NewtonLoopEnded =>
        \A m \in 1..Len(self.mpos) :
            frame.te[m] = SolveAlone(self.trajectory, self.mpos[m], self.c, frame.t[m],
                                     frame.epslim)

\* the number k = 0, 1, ... of the sample that MovingPointSource.result is solving
SampleNumber == self.numsamples - frame.n - 1

\* C24: in MovingPointSource.result, when the k-th sample (k = 0, 1, ...) is solved,
\* t equals start + k/sample_freq for every microphone; t is the same for all
\* microphones, strictly increases from sample to sample and is never changed by
\* the Newton-Raphson iteration.
C24_ReceivingTimeOfSample ==
    /\ [](gpc = "newton" =>
            \A m \in 1..Len(self.mpos) :
                frame.t[m] = FAdd(self.start, Rat(SampleNumber, self.sample_freq)))
    /\ [][(gpc = "newton" /\ gpc' = "newton") => frame'.t = frame.t]_vars

\* the third sample (k = 2) of a source with start = 5 and two microphones is in its
\* Newton-Raphson iteration, at t = 7 for both microphones
C24_Witness ==
    /\ gpc = "newton"
    /\ frame.j >= 1
    /\ SampleNumber = 2
    /\ self.start = RInt(5)
    /\ frame.t = <<RInt(7), RInt(7)>>

(***************************************************************************)
(* Claims about the order of the ensembles, under Spec.                    *)
(***************************************************************************)
\* calcCSM has returned: the CSM holds the ensemble SpecAllMics, and the caller is
\* free to pass the next ensembles
EnsembleAccumulated == pc = "idle" /\ SpecAllMics # <<>>

\* C25: accumulation order does not matter: starting from the same CSM, calling
\* calcCSM with ensemble A and then ensemble B leaves the same CSM as calling it
\* with B and then A, for any two spectra.
C25_AccumulationOrderIrrelevant ==
    EnsembleAccumulated =>
        \A B \in Spectra(Len(csm), Len(csm[1])) :
            calcCSM(calcCSM(csm, SpecAllMics), B) = calcCSM(calcCSM(csm, B), SpecAllMics)

\* the CSM of two microphones holds two ensembles, and there is a spectrum B whose
\* contribution to the entry [1, 1, 2] is another one than that of the spectrum A
\* passed last: having added A and B in either order, the entry holds both
C25_Witness ==
    /\ EnsembleAccumulated
    /\ nEnsembles = 2
    /\ Len(csm[1]) = 2
    /\ \E B \in Spectra(Len(csm), Len(csm[1])) :
           /\ calcCSM(csm, B) # calcCSM(csm, SpecAllMics)
           /\ calcCSM(calcCSM(csm, B), SpecAllMics)[1][1][2] =
                  CAdd(csm[1][1][2],
                       CAdd(CMul(B[1][1], CConj(B[1][2])),
                            CMul(SpecAllMics[1][1], CConj(SpecAllMics[1][2]))))

(***************************************************************************)
(* Claims about the end of the generators, under SpecSourceFair.           *)
(***************************************************************************)
\* the passes of the sample loop that have been entered
SamplesAttempted == IF gpc = "created" THEN 0 ELSE self.numsamples - frame.n

\* the blocks that were yielded by yield out[:i]
FinalYields == {k \in 1..Len(yielded) : ~yielded[k].buffer}

\* C26: for any numsamples >= 0 and num >= 1, PointSource.result and
\* MovingPointSource.result terminate: they attempt at most numsamples samples,
\* yield at most numsamples rows in total, and always end with exactly one final
\* yield of the remaining i < num rows (an empty block when the row count is a
\* multiple of num, including numsamples = 0).
C26_ResultTerminates ==
    /\ [](/\ SamplesAttempted \in 0..self.numsamples
          /\ Len(RowsOfBlocks(yielded, Len(yielded))) <= self.numsamples
          /\ ~GeneratorEnded => FinalYields = {}
          /\ GeneratorEnded =>
               /\ FinalYields = {Len(yielded)}
               /\ Len(yielded[Len(yielded)].rows) = frame.i
               /\ frame.i < frame.num
               /\ frame.i = Len(generated) % frame.num)
    /\ <>(gpc = "finished")

\* MovingPointSource.result(2) with numsamples = 2 has returned: it yielded the two
\* rows as one full block and then an empty final block
C26_Witness ==
    /\ gpc = "finished"
    /\ self.kind = "MovingPointSource"
    /\ self.numsamples = 2
    /\ frame.num = 2
    /\ Len(generated) = 2
    /\ Len(yielded) = 2
    /\ yielded[2] = [rows |-> <<>>, buffer |-> FALSE]

(***************************************************************************)
(* Claims about the output buffer, under SpecSource.                       *)
(***************************************************************************)
\* the rows generated since the last full block was yielded
RowsSinceYield == SubSeq(generated, Len(yielded) * frame.num + 1, Len(generated))

\* C27: result reuses a single output buffer for all blocks: every full block it
\* yields is the same buffer, so once generation resumes after a yield, row i of
\* the previously yielded block is overwritten by the i-th sample of the next
\* block; a consumer keeping a yielded block without copying sees its contents
\* change.  The buffer holds the rows generated since the last yield in its first
\* rows, and the rows of the block yielded last in the rows behind them.
C27_BlocksShareOneBuffer ==
    (yielded # <<>> /\ ~GeneratorEnded) =>
        /\ \A k \in 1..Len(yielded) : yielded[k].buffer
        /\ Len(RowsSinceYield) = IF gpc = "yielded" THEN 0 ELSE frame.i
        /\ frame.out = [r \in 1..frame.num |->
                          IF r <= Len(RowsSinceYield)
                          THEN RowsSinceYield[r]
                          ELSE yielded[Len(yielded)].rows[r]]

\* a block of two rows was yielded and generation has resumed: the first row of the
\* buffer holds the first sample of the next block, which is another row than the
\* one that was yielded, and the second row is still the one that was yielded
C27_Witness ==
    /\ Len(yielded) = 1
    /\ yielded[1].buffer
    /\ frame.num = 2
    /\ frame.i = 1
    /\ gpc = "while"
    /\ frame.out[1] = generated[3]
    /\ frame.out[1] # yielded[1].rows[1]
    /\ frame.out[2] = yielded[1].rows[2]

(***************************************************************************)
(* Claims about fixed and moving sources, under SpecSource.                *)
(***************************************************************************)
\* C28: fixed/moving agreement: for a free-field environment and a trajectory that
\* stays at the point loc with zero velocity, MovingPointSource.result looks up the
\* same signal sample indices and divides by the same distances as
\* PointSource.result with the same loc, start, start_t, c, up and signal, for every
\* sample and every value of start: at the lookup of the sample k the emission
\* index is the one of PointSource.result, its first index plus k, and rm is the
\* distance from loc.
C28_FixedMovingAgreement ==
    (gpc = "lookup" /\ self.kind = "MovingPointSource" /\ self.trajectory.v = ZeroVec) =>
        LET rm == EnvR(self.trajectory.x0, self.mpos)
            first == EmissionIndex(rm, self)
        IN /\ frame.rm = rm
           /\ frame.ind = [m \in 1..Len(rm) |-> FAdd(first[m], RInt(SampleNumber))]
====
